---- MODULE Spec2Model ----
(***************************************************************************)
(* Model of the Montgomery County court-case scraper: CAPTCHA token        *)
(* acquisition, case-identifier discovery, detail extraction, persistence  *)
(* and the per-run audit log.                                              *)
(*                                                                         *)
(* Text is modelled as the sequence of its whitespace-separated tokens, so *)
(* str.split() is the identity on a cell and ' '.join() is concatenation;  *)
(* an empty text is the empty sequence.                                    *)
(***************************************************************************)
EXTENDS Naturals, Integers, Sequences, FiniteSets, TLC

VARIABLES
  \* ---- extractors applied to one page (SpecExtract)
  xin,        \* the page handed to the extractor
  xop,        \* which extractor has run ("none" before)
  xout        \* what it returned

xvars == <<xin, xop, xout>>

VARIABLES
  \* ---- get_recaptcha_token (SpecCaptcha)
  variant,    \* "app": app/utils/recaptcha.py, "root": recaptcha.py
  cpc,        \* "create", "poll" or "done"
  attempt,    \* the local attempt (app variant)
  creates,    \* createTask requests sent
  polls,      \* getTaskResult requests sent
  answer,     \* the solver's last answer
  token       \* the value returned ("" on failure), "RAISED" when it raises

cvars == <<variant, cpc, attempt, creates, polls, answer, token>>

VARIABLES
  \* ---- one coordinator run after another over one database (Spec)
  coord,      \* the coordinator that runs: "endpoint" (scrape_probate_cases
              \* over scrape_all_cases), "details" (scrape_all_case_details)
              \* or "divorce" (run_scraper of the divorce scraper)
  nsite,      \* how many case pages the site lists (the same in every run)
  run,        \* the number of the current run (0 before the first)
  pc,         \* where the current run stands
  session,    \* self.session: "open" or "none"
  urls,       \* the identifiers the search step returned
  bi,         \* index of the first identifier of the current batch
  pending,    \* detail fetches in flight
  results,    \* what the fetches of the current batch returned
  ri,         \* index of the next result / case to persist
  cases,      \* the records collected for persistence
  found,      \* what case_exists answered for the current case
  total,      \* total_saved / total_processed
  summary,    \* the endpoint's counts: new, updated, skipped
  store,      \* the case table of the coordinator's category
  nextId,     \* source of fresh surrogate ids (uuid4)
  clock,      \* the database's clock (created_at = now())
  logs,       \* the scraping_log table
  netFaults,  \* detail fetches that raised so far
  dbFaults,   \* database operations that failed so far
  hist,       \* observations of the runs (not program state)
  race,       \* two endpoint requests at once over one case table
  svc,        \* the probate case service called directly
  dsv         \* a run of DivorceScraperService.scrape_new_cases

pvars == <<coord, nsite, run, pc, session, urls, bi, pending, results, ri,
           cases, found, total, summary, store, nextId, clock, logs,
           netFaults, dbFaults, hist>>

evars == <<race, svc, dsv>>

vars == <<xin, xop, xout, variant, cpc, attempt, creates, polls, answer, token,
          coord, nsite, run, pc, session, urls, bi, pending, results, ri,
          cases, found, total, summary, store, nextId, clock, logs,
          netFaults, dbFaults, hist, race, svc, dsv>>

----------------------------------------------------------------------------
(* Bounds of the model *)

MaxLinks == 3      \* links on a probate search-results page
MaxRows == 3       \* rows of a search-results table / of a detail table
NumIds == 2        \* distinct case identifiers the site knows
PollCap == 12      \* polls the model follows of a loop that has no bound
MaxUrls == 6       \* case pages the site lists at most
MaxRuns == 2       \* coordinator runs in a row
MaxFaults == 1     \* fetches and database operations that fail, over all runs
MaxAddr == 4       \* tokens of a fiduciary address
RaceCases == 2     \* cases two simultaneous requests scrape between them
MaxCalls == 3      \* direct calls of the case service in a row
MaxListed == 2     \* rows of the search results the divorce service reads

Ids == 1..NumIds

----------------------------------------------------------------------------
(* Generic helpers *)

SeqsUpTo(S, n) == UNION {[1..k -> S] : k \in 0..n}

Range(s) == {s[i] : i \in DOMAIN s}

NoDuplicates(s) == \A i, j \in DOMAIN s : i # j => s[i] # s[j]

Tail1(s) == IF s = <<>> THEN <<>> ELSE Tail(s)

----------------------------------------------------------------------------
(* Probate: MontgomeryProbateCaseScraper.get_case_list                      *)

\* An <a> element of the search-results page: its href (or none), whether
\* the href names a case page, and whether it is relative or absolute.
Hrefs ==
  [href : {TRUE}, case : BOOLEAN, rel : BOOLEAN, id : Ids] \cup
  {[href |-> FALSE, case |-> FALSE, rel |-> FALSE, id |-> 1]}

\* get_full_url: an absolute URL is returned as is, a relative one is joined
\* to BASE_URL; both forms of a case page give the same absolute URL.
get_full_url(h) == [h EXCEPT !.rel = FALSE]

\* list(dict.fromkeys(s)): first sighting kept, order preserved.
RECURSIVE DictFromKeysAcc(_, _)
DictFromKeysAcc(s, acc) ==
  IF s = <<>> THEN acc
  ELSE DictFromKeysAcc(Tail(s),
         IF Head(s) \in Range(acc) THEN acc ELSE Append(acc, Head(s)))

DictFromKeys(s) == DictFromKeysAcc(s, <<>>)

RECURSIVE CaseLinks(_)
CaseLinks(links) ==
  IF links = <<>> THEN <<>>
  ELSE LET h == Head(links)
       IN  IF h.href /\ h.case
           THEN <<get_full_url(h)>> \o CaseLinks(Tail(links))
           ELSE CaseLinks(Tail(links))

\* resp: "error" (the GET or POST raised, or raise_for_status did) or "ok".
\* The except branch returns {} : an empty collection.
get_case_list(resp, links) ==
  IF resp = "error" THEN <<>> ELSE DictFromKeys(CaseLinks(links))

----------------------------------------------------------------------------
(* Foreclosure: scrape_case_ids (montgomery_foreclosure_scraper)            *)

\* A <tr> of the response: the text of its status <td> and the case_id of
\* its onclick attribute (0: the attribute has no case_id).
FcRows == [status : {"OPEN", "REOPENED", "CLOSED"}, onclick : 0..NumIds]

RECURSIVE FcCaseIds(_)
FcCaseIds(rows) ==
  IF rows = <<>> THEN <<>>
  ELSE LET r == Head(rows)
       IN  IF r.status \in {"OPEN", "REOPENED"} /\ r.onclick # 0
           THEN <<r.onclick>> \o FcCaseIds(Tail(rows))
           ELSE FcCaseIds(Tail(rows))

\* get_search_results: resp = "error" is a non-2xx answer to the landing GET
\* or to the search POST (raise_for_status raises an HTTPError that carries
\* the response; the handler logs it and returns ""); resp = "noresponse" is
\* a request that fails without a response (the handler's
\* e.response.status_code raises inside the except clause).
fc_get_search_results(resp) ==
  CASE resp = "error" -> ""
    [] resp = "noresponse" -> "RAISED"
    [] OTHER -> "html"

\* The row pass applied to whatever body came back.
fc_scrape_any_response(resp, rows) == FcCaseIds(rows)

\* scrape_case_ids: [] when html_content is empty, and [] from its own
\* except clause when get_search_results raised.
fc_scrape_case_ids(resp, rows) ==
  LET html_content == fc_get_search_results(resp)
  IN  IF html_content \in {"", "RAISED"} THEN <<>> ELSE FcCaseIds(rows)

----------------------------------------------------------------------------
(* Dates: datetime.strptime(text, '%m-%d-%Y') and strftime('%Y-%m-%d')      *)

\* The date texts the model draws from, with the date each parses to under
\* '%m-%d-%Y' (strptime accepts unpadded fields); a text outside the table
\* raises ValueError.
MdyTable ==
  [t \in {"01-02-2025", "1-2-2025", "12-31-2024"} |->
     CASE t = "01-02-2025" -> [y |-> 2025, m |-> 1, d |-> 2]
       [] t = "1-2-2025"   -> [y |-> 2025, m |-> 1, d |-> 2]
       [] t = "12-31-2024" -> [y |-> 2024, m |-> 12, d |-> 31]]

\* ' '.join(parts) parses only when it is one token of the table.
StrptimeMdyOk(tokens) == Len(tokens) = 1 /\ tokens[1] \in DOMAIN MdyTable

StrftimeYmd(date) ==
  CASE date = [y |-> 2025, m |-> 1, d |-> 2]   -> "2025-01-02"
    [] date = [y |-> 2024, m |-> 12, d |-> 31] -> "2024-12-31"
    [] OTHER -> "0000-00-00"

----------------------------------------------------------------------------
(* Probate: MontgomeryProbateCaseScraper.get_case_details                   *)

\* The dictionary returned for a discarded page ({} in the source).
NoDetails == [empty |-> TRUE]

IsDetails(r) == ~r.empty

InitialDetails(case_url) ==
  [empty |-> FALSE,
   decedent_name |-> <<>>, filing_date |-> "", case_number |-> <<>>,
   source_url |-> case_url, county |-> "Montgomery County, Ohio",
   case_status |-> <<>>, property_address |-> <<>>,
   fiduciary_name |-> <<>>, fiduciary_address |-> <<>>,
   fiduciary_city |-> <<>>, fiduciary_zip |-> <<>>]

\* The status branch with the date read from token 1 alone.
StatusCellSecondToken(details, value) ==
  IF Len(value) >= 2
  THEN LET withStatus == [details EXCEPT !.case_status = <<value[1]>>]
       IN  IF value[2] \in DOMAIN MdyTable
           THEN [withStatus EXCEPT !.filing_date = StrftimeYmd(MdyTable[value[2]])]
           ELSE withStatus
  ELSE [details EXCEPT !.case_status = value]

\* The "case status" branch: split the cell, token 0 is the status, the
\* rest joined is the date; the status is stored whatever it is.
ProbateStatusCell(details, value) ==
  IF Len(value) >= 2
  THEN LET date_str == Tail(value)
           withStatus == [details EXCEPT !.case_status = <<value[1]>>]
       IN  IF StrptimeMdyOk(date_str)
           THEN [withStatus EXCEPT
                   !.filing_date = StrftimeYmd(MdyTable[date_str[1]])]
           ELSE withStatus
  ELSE [details EXCEPT !.case_status = value]

\* The "fiduciary" branch. The text after the <br> is a sequence of
\* whitespace tokens; c tells whether a comma ends the token ("St,").
Word(x) == [w |-> x, c |-> FALSE]

\* full_address.split(',', 1): the index of the token the first comma ends
\* (0: the text holds no comma).
FirstComma(s) ==
  IF \E i \in DOMAIN s : s[i].c
  THEN CHOOSE i \in DOMAIN s : s[i].c /\ \A j \in 1..(i - 1) : ~s[j].c
  ELSE 0

\* for i, part in enumerate(parts): if part == 'OH': the index, counted
\* from 0, of the first token that is exactly OH, or -1.
StateIndex(parts) ==
  IF \E i \in DOMAIN parts : parts[i] = Word("OH")
  THEN (CHOOSE i \in DOMAIN parts :
          parts[i] = Word("OH") /\ \A j \in 1..(i - 1) : parts[j] # Word("OH")) - 1
  ELSE -1

\* parts[k] of a Python list: a negative k counts from the end.
PyIndex(parts, k) == IF k < 0 THEN parts[Len(parts) + k + 1] ELSE parts[k + 1]

FiduciaryAddress(details, full_address) ==
  LET k == FirstComma(full_address)
  IN  IF k = 0 THEN [details EXCEPT !.fiduciary_address = full_address]
      ELSE LET street == [SubSeq(full_address, 1, k) EXCEPT ![k].c = FALSE]
               parts == SubSeq(full_address, k + 1, Len(full_address))
               withStreet == [details EXCEPT !.fiduciary_address = street]
               state_index == StateIndex(parts)
           IN  IF Len(parts) >= 2
               THEN IF state_index # -1
                    THEN [withStreet EXCEPT
                            !.fiduciary_city = <<PyIndex(parts, state_index - 1)>>,
                            !.fiduciary_zip = <<PyIndex(parts, -1)>>]
                    ELSE IF Len(parts) >= 3
                         THEN [withStreet EXCEPT
                                 !.fiduciary_city = <<PyIndex(parts, -3)>>,
                                 !.fiduciary_zip = <<PyIndex(parts, -1)>>]
                         ELSE [details EXCEPT !.fiduciary_address = full_address]
               ELSE [details EXCEPT !.fiduciary_address = full_address]

\* br_tag.next_sibling is a string ("text"), nothing ("none") or another
\* element ("element"). An element is truthy and has no strip method: bs4
\* resolves the attribute to find('strip'), which is None, and calling it
\* raises TypeError.
FiduciaryRaises(cell) == cell.br /\ cell.after = "element"

ProbateFiduciaryCell(details, cell) ==
  LET named == IF cell.br THEN [details EXCEPT !.fiduciary_name = cell.name]
               ELSE details
  IN  IF cell.br /\ cell.after = "text"
      THEN FiduciaryAddress(named, cell.address)
      ELSE named

\* One <tr>: rows with fewer than two cells are skipped; the label decides
\* the branch of the if/elif chain.
ProbateRow(details, row) ==
  CASE row.label = "short"            -> details
    [] row.label = "decedent's name"  -> [details EXCEPT !.decedent_name = row.value]
    [] row.label = "case number"      -> [details EXCEPT !.case_number = row.value]
    [] row.label = "case status"      -> ProbateStatusCell(details, row.value)
    [] row.label = "property address" -> [details EXCEPT !.property_address = row.value]
    [] row.label = "fiduciary"        -> ProbateFiduciaryCell(details, row.value)
    [] OTHER                          -> details

RECURSIVE ProbateRows(_, _)
ProbateRows(details, rows) ==
  IF rows = <<>> THEN details
  ELSE ProbateRows(ProbateRow(details, Head(rows)), Tail(rows))

\* The required fields: every field of details but the exempted ones, that
\* is decedent_name, filing_date, case_number and source_url.
ProbateMissingFields(details) ==
  {f \in {"decedent_name", "filing_date", "case_number", "source_url"} :
     CASE f = "decedent_name" -> details.decedent_name = <<>>
       [] f = "filing_date"   -> details.filing_date = ""
       [] f = "case_number"   -> details.case_number = <<>>
       [] f = "source_url"    -> FALSE}

\* The row loop raises when a fiduciary cell does.
ProbateRowsRaise(rows) ==
  \E i \in DOMAIN rows :
    rows[i].label = "fiduciary" /\ FiduciaryRaises(rows[i].value)

\* page.resp = "error": the GET raised; page.tables = FALSE: no <table>.
\* The except clause turns an exception of the row loop into {}.
get_case_details(case_url, page) ==
  IF page.resp = "error" THEN NoDetails
  ELSE IF ~page.tables THEN NoDetails
  ELSE IF ProbateRowsRaise(page.rows) THEN NoDetails
  ELSE LET details == ProbateRows(InitialDetails(case_url), page.rows)
       IN  IF ProbateMissingFields(details) # {} THEN NoDetails ELSE details

----------------------------------------------------------------------------
(* Probate, older service: ProbateCaseScraper.get_case_details              *)

\* This variant returns {} from inside the row loop when the status is not
\* OPEN or REOPEN, or when the status cell has fewer than two tokens.
RECURSIVE SvcProbateRows(_, _)
SvcProbateRows(details, rows) ==
  IF rows = <<>> THEN details
  ELSE LET row == Head(rows)
       IN  CASE row.label = "short" -> SvcProbateRows(details, Tail(rows))
             [] row.label = "decedent's name" ->
                  SvcProbateRows([details EXCEPT !.decedent_name = row.value], Tail(rows))
             [] row.label = "case number" ->
                  SvcProbateRows([details EXCEPT !.case_number = row.value], Tail(rows))
             [] row.label = "case status" ->
                  IF Len(row.value) >= 2
                  THEN IF row.value[1] \notin {"OPEN", "REOPEN"} THEN NoDetails
                       ELSE LET withStatus == [details EXCEPT !.case_status = <<row.value[1]>>]
                            IN  SvcProbateRows(
                                  IF StrptimeMdyOk(Tail(row.value))
                                  THEN [withStatus EXCEPT !.filing_date =
                                          StrftimeYmd(MdyTable[row.value[2]])]
                                  ELSE withStatus,
                                  Tail(rows))
                  ELSE NoDetails
             [] OTHER -> SvcProbateRows(details, Tail(rows))

svc_get_case_details(case_url, page) ==
  IF page.resp = "error" THEN NoDetails
  ELSE IF ~page.tables THEN NoDetails
  ELSE LET details == SvcProbateRows(InitialDetails(case_url), page.rows)
       IN  IF details.empty THEN NoDetails
           ELSE IF ProbateMissingFields(details) # {} THEN NoDetails ELSE details


----------------------------------------------------------------------------
(* Foreclosure: scrape_case_details (montgomery_foreclosure_scraper)        *)

MF == <<"MORTGAGE", "FORECLOSURE", "(MF)">>

\* A <td>/<th>: lab is the label text the cell contains, in the order the
\* if/elif chain tests them ("none": it contains no label); txt is its text.
FcLabel(l) == [lab |-> l, txt |-> <<l>>]
FcValue(t) == [lab |-> "none", txt |-> t]

FcInitialDetails(case_id) ==
  [empty |-> FALSE, case_id |-> case_id, filing_type |-> <<>>,
   filing_date |-> <<>>, case_status |-> <<>>, plaintiff |-> <<>>,
   defendants |-> <<>>, parcel_number |-> <<>>, case_filing_id |-> <<>>,
   county |-> "Montgomery", property_address |-> <<>>, source_url |-> case_id]

RECURSIVE Flatten(_)
Flatten(rows) == IF rows = <<>> THEN <<>> ELSE Head(rows) \o Flatten(Tail(rows))

\* First pass, over all cells in document order: a label cell assigns the
\* text of the cell immediately following it, when there is one.
RECURSIVE FcCells(_, _, _)
FcCells(details, cells, i) ==
  IF i > Len(cells) THEN details
  ELSE IF i + 1 > Len(cells) THEN FcCells(details, cells, i + 1)
  ELSE LET lab == cells[i].lab
           nxt == cells[i + 1].txt
           d2 == CASE lab = "Case Type:" -> [details EXCEPT !.filing_type = nxt]
                   [] lab = "File Date:" -> [details EXCEPT !.filing_date = nxt]
                   [] lab = "Case Status" ->
                        IF nxt # <<>>
                        THEN [details EXCEPT !.case_status = <<nxt[1]>>]
                        ELSE details
                   [] lab = "Status:" -> [details EXCEPT !.case_status = nxt]
                   [] lab = "Property Address:" ->
                        [details EXCEPT !.property_address = nxt]
                   [] OTHER -> details
       IN  FcCells(d2, cells, i + 1)

\* Second pass, over the rows with at least two cells.
RECURSIVE FcRowPass(_, _)
FcRowPass(details, rows) ==
  IF rows = <<>> THEN details
  ELSE LET row == Head(rows)
           d2 == IF Len(row) < 2 THEN details
                 ELSE CASE row[1].lab = "PARCEL NUMBER" ->
                             [details EXCEPT !.parcel_number = row[2].txt]
                        [] row[1].lab = "PLAINTIFF" ->
                             [details EXCEPT !.plaintiff = row[2].txt]
                        [] row[1].lab = "DEFENDANT" ->
                             IF row[2].txt # <<>>
                             THEN [details EXCEPT !.defendants = Append(@, row[2].txt)]
                             ELSE details
                        [] row[1].lab = "CASE FILING ID" ->
                             [details EXCEPT !.case_filing_id = row[2].txt]
                        [] OTHER -> details
       IN  FcRowPass(d2, Tail(rows))

\* Returns None when the POST raises; no field is checked before returning.
fc_scrape_case_details(case_id, page) ==
  IF page.resp = "error" THEN NoDetails
  ELSE FcRowPass(FcCells(FcInitialDetails(case_id), Flatten(page.rows), 1), page.rows)

\* The validation run_scraper and save_to_database apply to a record.
FcValid(d) == d.filing_type = MF /\ d.case_status \in {<<"OPEN">>, <<"REOPENED">>}

----------------------------------------------------------------------------
(* Divorce: scrape_case_ids (montgomery_divorce_scraper)                    *)

\* A <tr> of tblSearchResults: its case type and status cells and the case
\* id of its onclick attribute (0: no match). fetched: whether the detail
\* POST for the row succeeds (scrape_case_details returns None otherwise).
DvRows == [drc : BOOLEAN, status : {"OPEN", "REOPENED", "CLOSED"},
           onclick : 0..NumIds, fetched : BOOLEAN]

RECURSIVE DvCaseIds(_)
DvCaseIds(rows) ==
  IF rows = <<>> THEN <<>>
  ELSE LET r == Head(rows)
       IN  IF r.drc /\ r.status \in {"OPEN", "REOPENED"} /\ r.onclick # 0 /\ r.fetched
           THEN <<r.onclick>> \o DvCaseIds(Tail(rows))
           ELSE DvCaseIds(Tail(rows))

\* resp: "error" (no HTML), "notable" (no tblSearchResults) or "ok".
dv_scrape_case_ids(resp, rows) ==
  IF resp # "ok" THEN <<>> ELSE DvCaseIds(rows)


----------------------------------------------------------------------------
(* The database: the case table and the scraping_log table                  *)

\* MontgomeryProbateCase.case_number is unique: the row of a case number.
RowsOf(st, k) == {r \in st : r.case_number = k}

\* MontgomeryProbateCaseService.case_exists
case_exists(st, k) == RowsOf(st, k) # {}

\* The row an INSERT writes: the record's fields, a fresh id, and created_at
\* from the server default now().
NewRow(rec, id, now) ==
  [case_number |-> rec.case_number, id |-> id, created_at |-> now,
   source_url |-> rec.source_url, case_status |-> rec.case_status,
   filing_date |-> rec.filing_date, decedent_name |-> rec.decedent_name]

\* A commit on a case table that has no unique constraint.
InsertUnconstrained(st, rec) == TRUE

\* db.add(row); db.commit(): the unique constraint on case_number rejects a
\* second row for the same case number (IntegrityError).
InsertAccepted(st, rec) == ~case_exists(st, rec.case_number)

create_probate_case(st, rec, id, now) == st \cup {NewRow(rec, id, now)}

\* A row rebuilt from the record alone: created_at is not carried over.
RecreatedRow(r, rec) == NewRow(rec, r.id, 0)

\* update_probate_case that removes the row it finds and commits nothing in
\* its place.
update_dropping_row(st, rec) == st \ RowsOf(st, rec.case_number)

\* update_probate_case: setattr for every field of the record's model_dump,
\* which holds neither id nor created_at; the row is found by case number.
UpdatedRow(r, rec) ==
  [r EXCEPT !.source_url = rec.source_url, !.case_status = rec.case_status,
            !.filing_date = rec.filing_date, !.decedent_name = rec.decedent_name]

update_probate_case(st, rec) ==
  {IF r.case_number = rec.case_number THEN UpdatedRow(r, rec) ELSE r : r \in st}

\* An update that inserts the record when it finds no row.
UpsertCall(st, rec) ==
  IF case_exists(st, rec.case_number)
  THEN [raised |-> FALSE, store |-> update_probate_case(st, rec)]
  ELSE [raised |-> FALSE, store |-> st \cup {NewRow(rec, 0, 0)}]

\* A call of update_probate_case: the row is looked up first; when there is
\* none, ValueError is raised, the except clause rolls back (nothing was
\* written) and raises again.
UpdateCall(st, rec) ==
  IF case_exists(st, rec.case_number)
  THEN [raised |-> FALSE, store |-> update_probate_case(st, rec)]
  ELSE [raised |-> TRUE, store |-> st]

\* A log row that keeps no error message.
LogEntryNoMessage(r, source, total_records, success_status, error_message) ==
  [run |-> r, source |-> source, total_records |-> total_records,
   success_status |-> success_status, error_message |-> ""]

\* A ScrapingLog row.
LogEntry(r, source, total_records, success_status, error_message) ==
  [run |-> r, source |-> source, total_records |-> total_records,
   success_status |-> success_status, error_message |-> error_message]

\* What a write of a log row comes to: "ok"; "fail" (add/commit raised, no
\* row); "lost" (the row is committed, then the query that verifies the save
\* raises or finds nothing).
WriteLog(lg, entry, outcome) ==
  IF outcome \in {"ok", "lost"} THEN Append(lg, entry) ELSE lg

LogsOfRun(lg, r) == {i \in DOMAIN lg : lg[i].run = r}

----------------------------------------------------------------------------
(* The site: what the search and the case pages return in every run         *)

BatchSize == 5

NumCases == 4

\* The case a listed page belongs to: pages beyond NumCases show a case that
\* an earlier page shows too, under another URL.
CaseNo(i) == ((i - 1) % NumCases) + 1

CaseUrl(i) == [href |-> TRUE, case |-> TRUE, rel |-> TRUE, id |-> i]

SiteLinks(n) == [i \in 1..n |-> CaseUrl(i)]

\* The detail page of listed page i: case 3 is CLOSED, the page of case 4
\* has no decedent row, the others are complete and OPEN.
SitePage(i) ==
  LET k == CaseNo(i)
      name == [label |-> "decedent's name", value |-> <<"SMITH">>]
      number == [label |-> "case number", value |-> <<k>>]
      status == [label |-> "case status",
                 value |-> IF k = 3 THEN <<"CLOSED", "12-31-2024">>
                           ELSE <<"OPEN", "01-02-2025">>]
  IN  [kind |-> "probate_detail", resp |-> "ok", tables |-> TRUE,
       rows |-> IF k = 4 THEN <<number, status>> ELSE <<name, number, status>>]

FailedPage ==
  [kind |-> "probate_detail", resp |-> "error", tables |-> FALSE, rows |-> <<>>]

\* The record persistence works with: the case number is the text of the
\* case number cell.
RecordOf(details) ==
  [case_number |-> details.case_number[1], source_url |-> details.source_url.id,
   case_status |-> details.case_status, filing_date |-> details.filing_date,
   decedent_name |-> details.decedent_name]

\* hist: the case numbers create_probate_case succeeded for (over all
\* runs), what the previous run obtained from the search and, for the
\* current run: what it obtained from the search, the detail fetches made,
\* the fetches that raised, the case rows written, the rows inserted,
\* whether a case write failed, whether a log write failed, and whether an
\* exception left the coordinator; the tokens requested, whether the token
\* request failed, and the search requests submitted; the natural keys of
\* the case rows the run has written (inserted or added to the session);
\* the records the run has begun to persist; the keys an existence check of
\* the run found absent; the listed pages whose case the run has written, in
\* the order of the writes.
EmptyHist ==
  [created |-> {}, prevSeen |-> <<>>, seen |-> <<>>, fetched |-> 0,
   failedFetch |-> {}, writes |-> 0, newrows |-> 0, persistErr |-> FALSE,
   logFailed |-> FALSE, raised |-> FALSE,
   tokens |-> 0, tokenFailed |-> FALSE, searches |-> 0, added |-> {},
   attempts |-> 0, absent |-> {}, order |-> <<>>]

\* The variables of the pipeline while no coordinator is modelled.
PipelineIdle ==
  /\ coord = "none" /\ nsite = 0 /\ run = 0 /\ pc = "off" /\ session = "none"
  /\ urls = <<>> /\ bi = 1 /\ pending = {} /\ results = <<>> /\ ri = 1
  /\ cases = <<>> /\ found = FALSE /\ total = 0
  /\ summary = [new |-> 0, updated |-> 0, skipped |-> 0]
  /\ store = {} /\ nextId = 1 /\ clock = 1 /\ logs = <<>>
  /\ netFaults = 0 /\ dbFaults = 0 /\ hist = EmptyHist

\* The later subsystems while none of them runs.
IdleValue == [pc |-> "idle"]

RaceIdle == race = IdleValue

ServiceIdle == svc = IdleValue

DivorceServiceIdle == dsv = IdleValue

LaterIdle == RaceIdle /\ ServiceIdle /\ DivorceServiceIdle

----------------------------------------------------------------------------
(* get_recaptcha_token: app/utils/recaptcha.py and recaptcha.py             *)

max_attempts == 10

\* The variables of get_recaptcha_token while no token is being acquired.
CaptchaIdle ==
  /\ variant = "app" /\ cpc = "done" /\ attempt = 0 /\ creates = 0
  /\ polls = 0 /\ answer = "none" /\ token = ""

\* What a request to the solver can come to. "noresponse": the request
\* raised without an HTTP response (connection error, timeout); "http":
\* a non-2xx response; the others are the JSON body of a 2xx response.
CreateAnswers == {"noresponse", "http", "notask", "task"}
PollAnswers == {"noresponse", "http", "ready", "nosolution", "failed",
                "processing", "nostatus"}

\* The except clauses of the app variant: a RequestException is logged with
\* e.response.status_code, which raises when the exception carries no
\* response; the root variant catches everything and returns "".
OnRequestError(v, a) ==
  IF v = "app" /\ a = "noresponse" THEN "RAISED" ELSE ""

\* Step 1 (createTask). The root variant does not call raise_for_status: a
\* non-2xx body has no taskId.
CreateTask ==
  /\ cpc = "create"
  /\ \E a \in CreateAnswers :
       /\ answer' = a
       /\ creates' = creates + 1
       /\ CASE a = "noresponse" ->
                 cpc' = "done" /\ token' = OnRequestError(variant, a)
            [] a \in {"http", "notask"} -> cpc' = "done" /\ token' = ""
            [] a = "task" -> cpc' = "poll" /\ token' = ""
  /\ UNCHANGED <<variant, attempt, polls, xvars, pvars, evars>>

\* Whether the poll loop goes round again after a poll that settled nothing:
\* "while attempt < max_attempts" in the app variant, "while True" in the
\* root variant.
LoopContinues(v, att) == IF v = "app" THEN att < max_attempts ELSE TRUE

\* Step 2 (one turn of the poll loop: sleep, getTaskResult, the tests on the
\* answer and the loop condition).
PollResult ==
  /\ cpc = "poll"
  /\ polls < PollCap
  /\ \E a \in PollAnswers :
       /\ answer' = a
       /\ polls' = polls + 1
       /\ attempt' = IF variant = "app" THEN attempt + 1 ELSE attempt
       /\ CASE a = "noresponse" ->
                 cpc' = "done" /\ token' = OnRequestError(variant, a)
            [] a = "http" /\ variant = "app" -> cpc' = "done" /\ token' = ""
            [] a = "ready" -> cpc' = "done" /\ token' = "TOKEN"
            [] a \in {"nosolution", "failed"} -> cpc' = "done" /\ token' = ""
            [] OTHER ->
                 /\ token' = ""
                 /\ cpc' = IF LoopContinues(variant, attempt') THEN "poll" ELSE "done"
  /\ UNCHANGED <<variant, creates, xvars, pvars, evars>>

InitCaptcha ==
  /\ variant \in {"app", "root"}
  /\ cpc = "create" /\ attempt = 0 /\ creates = 0 /\ polls = 0
  /\ answer = "none" /\ token = ""
  /\ xin = [kind |-> "none"] /\ xop = "none" /\ xout = <<>>
  /\ PipelineIdle
  /\ LaterIdle

NextCaptcha ==
  \/ CreateTask
  \/ PollResult

SpecCaptcha == InitCaptcha /\ [][NextCaptcha]_vars

\* C10: token acquisition terminates for every solver behaviour: every
\* get_recaptcha_token sends at most max_attempts polls, and once that many
\* polls have been answered without 'ready' or 'failed' it has returned
\* failure.
C10_PollLoopBounded ==
  /\ polls <= max_attempts
  /\ (polls = max_attempts /\ answer \in {"processing", "nostatus"})
       => (cpc = "done" /\ token = "")

\* C11: get_recaptcha_token of app/utils/recaptcha.py has, when it is over,
\* handed a string to its caller (the token or the empty string): no
\* exception has left it, whatever the solver and the network did.
C11_ReturnsString ==
  (variant = "app" /\ cpc = "done") => token \in {"", "TOKEN"}

\* The answers whose status is 'ready' and those that settle the task.
ReadyAnswers == {"ready", "nosolution"}
SettlingAnswers == ReadyAnswers \cup {"failed"}

\* C18: get_recaptcha_token sends exactly one createTask request and then
\* polls; it returns a non-empty token if and only if a poll within the
\* attempt bound answered 'ready' (no earlier poll having answered
\* 'failed'); after the first 'ready' or 'failed' answer no poll is sent.
C18_OneTaskThenPollUntilSettled ==
  /\ creates <= 1
  /\ cpc # "create" => creates = 1
  /\ cpc = "poll" => answer \notin SettlingAnswers
  /\ cpc = "done" =>
       (token = "TOKEN" <=> (answer \in ReadyAnswers /\ polls <= max_attempts))

----------------------------------------------------------------------------
(* The pages the extractors are applied to *)

ProbateSearchPages ==
  [kind : {"probate_search"}, resp : {"ok"}, links : SeqsUpTo(Hrefs, MaxLinks)] \cup
  {[kind |-> "probate_search", resp |-> "error", links |-> <<>>]}

FcSearchPages ==
  [kind : {"fc_search"}, resp : {"ok", "error", "noresponse"},
   rows : SeqsUpTo(FcRows, MaxRows)] \cup
  {[kind |-> "fc_search", resp |-> "notable", rows |-> <<>>]}

DvSearchRows ==
  {r \in DvRows : r.drc \/ (r.status = "OPEN" /\ r.onclick = 1 /\ r.fetched)}

DvSearchPages ==
  [kind : {"dv_search"}, resp : {"ok"}, rows : SeqsUpTo(DvSearchRows, MaxRows)] \cup
  [kind : {"dv_search"}, resp : {"error", "notable"}, rows : {<<>>}]

ProbateDetailRows ==
  [label : {"decedent's name"}, value : {<<"SMITH">>, <<>>}] \cup
  [label : {"case number"}, value : {<<"2025EST00001">>, <<>>}] \cup
  [label : {"case status"},
   value : {<<"OPEN", "01-02-2025">>, <<"REOPEN", "1-2-2025">>,
            <<"CLOSED", "12-31-2024">>, <<"OPEN">>, <<"CLOSED">>,
            <<"OPEN", "13-45-2025">>, <<"OPEN", "01-02-2025", "NOTE">>, <<>>}] \cup
  [label : {"property address"}, value : {<<"1", "MAIN", "ST">>}] \cup
  [label : {"short"}, value : {<<>>}]

ProbateDetailPages ==
  [kind : {"probate_detail"}, resp : {"ok"}, tables : {TRUE},
   rows : SeqsUpTo(ProbateDetailRows, MaxRows)] \cup
  {[kind |-> "probate_detail", resp |-> "ok", tables |-> FALSE, rows |-> <<>>],
   [kind |-> "probate_detail", resp |-> "error", tables |-> FALSE, rows |-> <<>>]}

\* Fiduciary cells: NAME<br>ADDRESS, with every address of up to MaxAddr
\* tokens and the address of the documentation.
AddrTokens == [w : {"Main", "Dayton", "OH", "45402"}, c : BOOLEAN]

ExampleAddress ==
  <<Word("123"), Word("Main"), [w |-> "St", c |-> TRUE],
    Word("Dayton"), Word("OH"), Word("45402")>>

FiduciaryCells ==
  [name : {<<"JOHN", "DOE">>}, br : {TRUE}, after : {"text"},
   address : SeqsUpTo(AddrTokens, MaxAddr) \cup {ExampleAddress}] \cup
  [name : {<<"JOHN", "DOE">>}, br : BOOLEAN, after : {"none"}, address : {<<>>}] \cup
  [name : {<<"JOHN", "DOE">>}, br : {TRUE}, after : {"element"}, address : {<<>>}]

\* A detail page with the mandatory rows and one fiduciary row.
FiduciaryPage(cell) ==
  [kind |-> "probate_detail", resp |-> "ok", tables |-> TRUE,
   rows |-> <<[label |-> "decedent's name", value |-> <<"SMITH">>],
              [label |-> "case number", value |-> <<"2025EST00001">>],
              [label |-> "case status", value |-> <<"OPEN", "01-02-2025">>],
              [label |-> "fiduciary", value |-> cell]>>]

FiduciaryPages == {FiduciaryPage(cell) : cell \in FiduciaryCells}

FcDetailRows ==
  {<<FcLabel("Case Type:"), FcValue(MF)>>,
   <<FcLabel("Case Type:"), FcValue(<<"CIVIL">>)>>,
   <<FcLabel("File Date:"), FcValue(<<"01/02/2025">>)>>,
   <<FcLabel("File Date:"), FcValue(<<>>)>>,
   <<FcLabel("File Date:")>>,
   <<FcLabel("Case Status"), FcValue(<<"OPEN", "01/02/2025">>)>>,
   <<FcLabel("Case Status"), FcValue(<<"CLOSED", "01/02/2025">>)>>,
   <<FcLabel("Status:"), FcValue(<<"REOPENED">>)>>,
   <<FcLabel("Status:"), FcValue(<<"CLOSED">>)>>,
   <<FcLabel("PLAINTIFF"), FcValue(<<"BANK">>)>>,
   <<FcLabel("DEFENDANT"), FcValue(<<"DOE">>)>>}

FcDetailPages ==
  [kind : {"fc_detail"}, resp : {"ok"}, rows : SeqsUpTo(FcDetailRows, MaxRows)] \cup
  {[kind |-> "fc_detail", resp |-> "error", rows |-> <<>>]}

ExtractInputs ==
  ProbateSearchPages \cup FcSearchPages \cup DvSearchPages \cup
  ProbateDetailPages \cup FiduciaryPages \cup FcDetailPages

----------------------------------------------------------------------------
(* SpecExtract: one extractor applied to one page *)

InitExtract ==
  /\ xin \in ExtractInputs
  /\ xop = "none"
  /\ xout = <<>>
  /\ CaptchaIdle
  /\ PipelineIdle
  /\ LaterIdle

GetCaseList ==
  /\ xop = "none" /\ xin.kind = "probate_search"
  /\ xop' = "get_case_list"
  /\ xout' = get_case_list(xin.resp, xin.links)
  /\ UNCHANGED <<xin, cvars, pvars, evars>>

FcScrapeCaseIds ==
  /\ xop = "none" /\ xin.kind = "fc_search"
  /\ xop' = "fc_scrape_case_ids"
  /\ xout' = fc_scrape_case_ids(xin.resp, xin.rows)
  /\ UNCHANGED <<xin, cvars, pvars, evars>>

DvScrapeCaseIds ==
  /\ xop = "none" /\ xin.kind = "dv_search"
  /\ xop' = "dv_scrape_case_ids"
  /\ xout' = dv_scrape_case_ids(xin.resp, xin.rows)
  /\ UNCHANGED <<xin, cvars, pvars, evars>>

GetCaseDetails ==
  /\ xop = "none" /\ xin.kind = "probate_detail"
  /\ xop' = "get_case_details"
  /\ xout' = get_case_details(1, xin)
  /\ UNCHANGED <<xin, cvars, pvars, evars>>

SvcGetCaseDetails ==
  /\ xop = "none" /\ xin.kind = "probate_detail"
  /\ xop' = "svc_get_case_details"
  /\ xout' = svc_get_case_details(1, xin)
  /\ UNCHANGED <<xin, cvars, pvars, evars>>

FcScrapeCaseDetails ==
  /\ xop = "none" /\ xin.kind = "fc_detail"
  /\ xop' = "fc_scrape_case_details"
  /\ xout' = fc_scrape_case_details(1, xin)
  /\ UNCHANGED <<xin, cvars, pvars, evars>>

NextExtract ==
  \/ GetCaseList
  \/ FcScrapeCaseIds
  \/ DvScrapeCaseIds
  \/ GetCaseDetails
  \/ SvcGetCaseDetails
  \/ FcScrapeCaseDetails

SpecExtract == InitExtract /\ [][NextExtract]_vars

----------------------------------------------------------------------------
(* Claims about the extractors *)

PermittedStatus == {"OPEN", "REOPEN", "REOPENED"}

\* C7: the identifier list produced by each category's identifier extractor
\* (probate get_case_list, foreclosure scrape_case_ids, divorce
\* scrape_case_ids) holds no identifier twice.
C7_IdentifiersUnique ==
  xop \in {"get_case_list", "fc_scrape_case_ids", "dv_scrape_case_ids"}
    => NoDuplicates(xout)

IsFiduciaryExtraction ==
  /\ xop = "get_case_details" /\ xin.kind = "probate_detail"
  /\ Len(xin.rows) = 4 /\ xin.rows[4].label = "fiduciary"

FidCell == xin.rows[4].value

\* The tokens after the first comma of the address.
AfterComma(a) == SubSeq(a, FirstComma(a) + 1, Len(a))

HasStateToken(a) == \E i \in DOMAIN AfterComma(a) : AfterComma(a)[i] = Word("OH")

\* The four parts of the statement about fiduciary addresses: the address
\* of the documentation; no state token after the comma; fewer than three
\* tokens after the comma or no comma; never an exception.
FidExampleParsed ==
  (FidCell.after = "text" /\ FidCell.address = ExampleAddress) =>
    /\ ~xout.empty
    /\ xout.fiduciary_address = <<Word("123"), Word("Main"), Word("St")>>
    /\ xout.fiduciary_city = <<Word("Dayton")>>
    /\ xout.fiduciary_zip = <<Word("45402")>>

FidPositional ==
  LET a == FidCell.address
      rest == AfterComma(a)
  IN  (FidCell.after = "text" /\ FirstComma(a) # 0 /\ ~HasStateToken(a)
         /\ Len(rest) >= 3) =>
        /\ ~xout.empty
        /\ xout.fiduciary_city = <<rest[Len(rest) - 2]>>
        /\ xout.fiduciary_zip = <<rest[Len(rest)]>>

FidWholeString ==
  LET a == FidCell.address
  IN  (FidCell.after = "text" /\ ~HasStateToken(a)
         /\ (FirstComma(a) = 0 \/ Len(AfterComma(a)) < 3)) =>
        /\ ~xout.empty
        /\ xout.fiduciary_address = a

\* C17: fiduciary address parsing. "123 Main St, Dayton OH 45402" gives
\* street "123 Main St", city "Dayton", zip "45402"; without a state token
\* after the comma, city and zip are the third-last and last tokens; with
\* fewer than three tokens there, or no comma, the whole string is the
\* street; and for no fiduciary cell does the parse raise, which would
\* leave the caller without the record and its street.
C17_FiduciaryAddressParsed ==
  IsFiduciaryExtraction =>
    /\ FidExampleParsed /\ FidPositional /\ FidWholeString
    /\ ~xout.empty

\* The three rules about the address text alone.
FiduciaryTextRules ==
  IsFiduciaryExtraction => FidExampleParsed /\ FidPositional /\ FidWholeString

\* The positions of the status rows of a probate detail page.
StatusRows(page) == {j \in DOMAIN page.rows : page.rows[j].label = "case status"}

\* A status cell that gives no filing date: a single token (or none), or a
\* rest that is not an MM-DD-YYYY date.
NoDateInCell(value) == Len(value) < 2 \/ ~StrptimeMdyOk(Tail(value))

\* C23: probate status parsing. Token 0 of the status cell becomes the
\* status code and the remaining tokens, joined, are parsed as an MM-DD-YYYY
\* date into filing_date; when the cell has a single token or the date does
\* not parse, filing_date stays empty and get_case_details returns empty.
C23_StatusCellParsed ==
  (xop = "get_case_details" /\ xin.kind = "probate_detail" /\ xin.resp = "ok") =>
    /\ (\A j \in StatusRows(xin) : NoDateInCell(xin.rows[j].value)) => xout.empty
    /\ \A j \in StatusRows(xin) :
         (StatusRows(xin) = {j} /\ ~NoDateInCell(xin.rows[j].value) /\ ~xout.empty) =>
           /\ xout.case_status = <<xin.rows[j].value[1]>>
           /\ xout.filing_date = StrftimeYmd(MdyTable[xin.rows[j].value[2]])

C23_Witness ==
  /\ xop = "get_case_details"
  /\ xin.rows = <<[label |-> "decedent's name", value |-> <<"SMITH">>],
                  [label |-> "case number", value |-> <<"2025EST00001">>],
                  [label |-> "case status", value |-> <<"OPEN", "01-02-2025", "NOTE">>]>>
  /\ xout.empty

\* C29: when the state token OH is found after the comma of a fiduciary
\* address, fiduciary_city is a token that stands before the state token;
\* when OH is the first token there, no token stands before it and the city
\* is not set, in particular not to the zip, the last token.
C29_CityBeforeStateToken ==
  LET rest == AfterComma(FidCell.address)
  IN  (IsFiduciaryExtraction /\ FidCell.after = "text"
         /\ FirstComma(FidCell.address) # 0 /\ Len(rest) >= 2
         /\ StateIndex(rest) # -1) =>
        /\ ~xout.empty
        /\ xout.fiduciary_city \in
             {<<>>} \cup {<<rest[k]>> : k \in 1..StateIndex(rest)}
        /\ StateIndex(rest) = 0 => xout.fiduciary_city = <<>>

\* The status cells of a detail page, per page kind.
ProbateStatusCells(page) ==
  {page.rows[i].value : i \in {j \in DOMAIN page.rows : page.rows[j].label = "case status"}}

FcStatusCells(page) ==
  LET cells == Flatten(page.rows)
  IN  {cells[i + 1].txt : i \in {j \in 1..(Len(cells) - 1) : cells[j].lab = "Case Status"}}

\* Every status cell of the page carries a status code, and none of the
\* codes is permitted.
StatusNotPermitted(cellset) ==
  /\ cellset # {}
  /\ \A c \in cellset : c # <<>> /\ c[1] \notin PermittedStatus

\* C8: for a detail page whose status code (token 0 of the status cell) is
\* none of OPEN, REOPEN, REOPENED the detail extractor returns empty, never
\* a record.
C8_StatusOutsidePermittedIsEmpty ==
  /\ (xop \in {"get_case_details", "svc_get_case_details"}
        /\ StatusNotPermitted(ProbateStatusCells(xin))) => xout.empty
  /\ (xop = "fc_scrape_case_details"
        /\ StatusNotPermitted(FcStatusCells(xin))) => xout.empty

\* C9: the detail extractor returns a record only if every field mandatory
\* for the category is non-empty: decedent name, filing date and case
\* number for probate; for foreclosure the fields persistence validates and
\* parses (filing type, case status, filing date).
C9_RecordHasMandatoryFields ==
  /\ (xop \in {"get_case_details", "svc_get_case_details"} /\ ~xout.empty)
       => /\ xout.decedent_name # <<>>
          /\ xout.filing_date # ""
          /\ xout.case_number # <<>>
  /\ (xop = "fc_scrape_case_details" /\ ~xout.empty)
       => /\ xout.filing_type # <<>>
          /\ xout.case_status # <<>>
          /\ xout.filing_date # <<>>

----------------------------------------------------------------------------
(* Spec: coordinator runs, one after another, over one database             *)

ExtractIdle == xin = [kind |-> "none"] /\ xop = "none" /\ xout = <<>>

InitPipeline ==
  /\ coord \in {"endpoint", "details", "divorce", "foreclosure"}
  /\ nsite \in 0..MaxUrls
  /\ run = 0 /\ pc = "idle" /\ session = "none"
  /\ urls = <<>> /\ bi = 1 /\ pending = {} /\ results = <<>> /\ ri = 1
  /\ cases = <<>> /\ found = FALSE /\ total = 0
  /\ summary = [new |-> 0, updated |-> 0, skipped |-> 0]
  /\ store = {} /\ nextId = 1 /\ clock = 1 /\ logs = <<>>
  /\ netFaults = 0 /\ dbFaults = 0 /\ hist = EmptyHist
  /\ ExtractIdle
  /\ CaptchaIdle
  /\ LaterIdle

\* A database operation either works or, while faults remain, fails.
DbFails == {FALSE} \cup (IF netFaults + dbFaults < MaxFaults THEN {TRUE} ELSE {})

LogOutcomes(verified) ==
  {"ok"} \cup (IF netFaults + dbFaults < MaxFaults
               THEN {"fail"} \cup (IF verified THEN {"lost"} ELSE {})
               ELSE {})

\* A new request / a new invocation: a new scraper object, new local
\* variables; the database stays.
StartRun ==
  /\ pc \in {"idle", "done"} /\ run < MaxRuns
  /\ run' = run + 1
  /\ pc' = CASE coord = "divorce" -> "dv_verify"
            [] coord = "foreclosure" -> "fc_token"
            [] OTHER -> "search"
  /\ session' = "none"
  /\ urls' = <<>> /\ bi' = 1 /\ pending' = {} /\ results' = <<>> /\ ri' = 1
  /\ cases' = <<>> /\ found' = FALSE /\ total' = 0
  /\ summary' = [new |-> 0, updated |-> 0, skipped |-> 0]
  /\ hist' = [EmptyHist EXCEPT !.created = hist.created, !.prevSeen = hist.seen]
  /\ UNCHANGED <<coord, nsite, store, nextId, clock, logs, netFaults, dbFaults,
                 xvars, cvars, evars>>

\* urls = await self.get_case_list(): init_session, then the search.
RunGetCaseList ==
  /\ pc = "search"
  /\ \E resp \in {"ok", "error"} :
       /\ urls' = get_case_list(resp, SiteLinks(nsite))
       /\ pc' = IF urls' = <<>> THEN "log_block" ELSE "batch"
  /\ session' = "open"
  /\ hist' = [hist EXCEPT !.seen = urls']
  /\ UNCHANGED <<coord, nsite, run, bi, pending, results, ri, cases, found,
                 total, summary, store, nextId, clock, logs, netFaults,
                 dbFaults, xvars, cvars, evars>>

\* urls[i:]: every url from position i on.
UrlsFrom(i, n) == {j \in 1..n : i <= j}

\* batch = urls[i:i + batch_size]; one task per url.
BatchOf(i, n) == {j \in 1..n : i <= j /\ j < i + BatchSize}

StartBatch ==
  /\ pc = "batch"
  /\ pending' = BatchOf(bi, Len(urls))
  /\ results' = <<>>
  /\ pc' = "fetching"
  /\ UNCHANGED <<coord, nsite, run, session, urls, bi, ri, cases, found, total,
                 summary, store, nextId, clock, logs, netFaults, dbFaults,
                 hist, xvars, cvars, evars>>

\* One get_case_details task of the gather completes: the GET raised (and
\* the extractor returned {}) or the page came back.
FetchDone(i) ==
  /\ pc = "fetching" /\ i \in pending
  /\ \E fail \in {FALSE} \cup (IF netFaults + dbFaults < MaxFaults THEN {TRUE} ELSE {}) :
       /\ results' = (i :> get_case_details(urls[i],
                              IF fail THEN FailedPage ELSE SitePage(urls[i].id)))
                     @@ results
       /\ netFaults' = netFaults + (IF fail THEN 1 ELSE 0)
       /\ hist' = [hist EXCEPT !.fetched = @ + 1,
                               !.failedFetch = IF fail THEN @ \cup {i} ELSE @]
  /\ pending' = pending \ {i}
  /\ UNCHANGED <<coord, nsite, run, pc, session, urls, bi, ri, cases, found,
                 total, summary, store, nextId, clock, logs, dbFaults,
                 xvars, cvars, evars>>

----------------------------------------------------------------------------
(* "endpoint": scrape_probate_cases over scrape_all_cases                   *)

\* for details in results: if details: cases.append(...), in batch order.
RECURSIVE CollectCases(_, _, _)
CollectCases(res, i, last) ==
  IF i > last THEN <<>>
  ELSE (IF IsDetails(res[i]) THEN <<RecordOf(res[i])>> ELSE <<>>)
       \o CollectCases(res, i + 1, last)

LastOfBatch(i, n) == IF i + BatchSize - 1 < n THEN i + BatchSize - 1 ELSE n

\* The CAPTCHA-block branch: save_scraping_log, then return cases from
\* inside the try (close_session is not reached).
AllCasesLogBlock ==
  /\ coord = "endpoint" /\ pc = "log_block"
  /\ \E o \in LogOutcomes(TRUE) :
       /\ logs' = WriteLog(logs,
            LogEntry(run, "Montgomery Probate", 0, FALSE, "CAPTCHA block"), o)
       /\ dbFaults' = dbFaults + (IF o = "ok" THEN 0 ELSE 1)
       /\ hist' = [hist EXCEPT !.logFailed = @ \/ o # "ok"]
       /\ pc' = IF o = "ok" THEN "persist" ELSE "log_error"
  /\ UNCHANGED <<coord, nsite, run, session, urls, bi, pending, results, ri,
                 cases, found, total, summary, store, nextId, clock,
                 netFaults, xvars, cvars, evars>>

\* The gather returned: collect the non-empty results, sleep, next batch.
AllCasesJoin ==
  /\ coord = "endpoint" /\ pc = "fetching" /\ pending = {}
  /\ LET new == CollectCases(results, bi, LastOfBatch(bi, Len(urls)))
     IN  /\ cases' = cases \o new
         /\ total' = total + Len(new)
  /\ bi' = bi + BatchSize
  /\ pc' = IF bi' > Len(urls) THEN "log_final" ELSE "batch"
  /\ results' = <<>>
  /\ UNCHANGED <<coord, nsite, run, session, urls, pending, ri, found, summary,
                 store, nextId, clock, logs, netFaults, dbFaults, hist,
                 xvars, cvars, evars>>

\* The final log entry; when save_scraping_log raises, the except branch
\* runs; otherwise close_session and return cases.
AllCasesLogFinal ==
  /\ coord = "endpoint" /\ pc = "log_final"
  /\ \E o \in LogOutcomes(TRUE) :
       /\ logs' = WriteLog(logs,
            LogEntry(run, "Montgomery Probate", total, TRUE, ""), o)
       /\ dbFaults' = dbFaults + (IF o = "ok" THEN 0 ELSE 1)
       /\ hist' = [hist EXCEPT !.logFailed = @ \/ o # "ok"]
       /\ pc' = IF o = "ok" THEN "persist" ELSE "log_error"
       /\ session' = IF o = "ok" THEN "none" ELSE session
  /\ UNCHANGED <<coord, nsite, run, urls, bi, pending, results, ri, cases,
                 found, total, summary, store, nextId, clock, netFaults, xvars, cvars, evars>>

\* The except branch: the error log entry; when this save_scraping_log
\* raises too, the exception leaves scrape_all_cases and the endpoint
\* answers 500.
AllCasesLogError ==
  /\ coord = "endpoint" /\ pc = "log_error"
  /\ \E o \in LogOutcomes(TRUE) :
       /\ logs' = WriteLog(logs,
            LogEntry(run, "Montgomery Probate", 0, FALSE, "error"), o)
       /\ dbFaults' = dbFaults + (IF o = "ok" THEN 0 ELSE 1)
       /\ pc' = IF o = "ok" THEN "persist" ELSE "done"
       /\ session' = IF o = "ok" THEN "none" ELSE session
       /\ hist' = [hist EXCEPT !.raised = (o # "ok"),
                               !.logFailed = @ \/ o # "ok"]
  /\ UNCHANGED <<coord, nsite, run, urls, bi, pending, results, ri, cases,
                 found, total, summary, store, nextId, clock, netFaults,
                 xvars, cvars, evars>>

\* The except clause of the loop body without its append.
SkipUncounted(sm) == sm

\* except Exception: skipped_cases.append(case.case_number); continue
Skipped(sm) == [sm EXCEPT !.skipped = @ + 1]

\* for case in cases: the loop takes the cases in list order.
CaseFromEnd(cs, r) == cs[Len(cs) + 1 - r]

CaseAt(cs, r) == cs[r]

\* for case in cases: service.case_exists(case.case_number); a failure of
\* the query is caught by the loop body's except: skipped, continue.
EndpointCaseExists ==
  /\ coord = "endpoint" /\ pc = "persist" /\ ri <= Len(cases)
  /\ \E fail \in DbFails :
       IF fail
       THEN /\ summary' = Skipped(summary)
            /\ ri' = ri + 1
            /\ dbFaults' = dbFaults + 1
            /\ UNCHANGED <<pc, found>>
       ELSE /\ found' = case_exists(store, CaseAt(cases, ri).case_number)
            /\ pc' = "persist_write"
            /\ UNCHANGED <<summary, ri, dbFaults>>
  /\ hist' = [hist EXCEPT
                !.attempts = @ + 1,
                !.absent = IF pc' = "persist_write" /\ ~found'
                           THEN @ \cup {CaseAt(cases, ri).case_number} ELSE @]
  /\ UNCHANGED <<coord, nsite, run, session, urls, bi, pending, results, cases,
                 total, store, nextId, clock, logs, netFaults, xvars, cvars, evars>>

\* service.create_probate_case(case): add, commit, refresh; on an
\* exception rollback and raise, which the loop body's except catches.
EndpointCreate ==
  /\ coord = "endpoint" /\ pc = "persist_write" /\ ~found
  /\ \E fail \in DbFails :
       IF fail \/ ~InsertAccepted(store, CaseAt(cases, ri))
       THEN /\ summary' = Skipped(summary)
            /\ dbFaults' = dbFaults + (IF fail THEN 1 ELSE 0)
            /\ hist' = [hist EXCEPT !.persistErr = TRUE]
            /\ UNCHANGED <<store, nextId, clock>>
       ELSE /\ store' = create_probate_case(store, CaseAt(cases, ri), nextId, clock)
            /\ nextId' = nextId + 1
            /\ clock' = clock + 1
            /\ summary' = [summary EXCEPT !.new = @ + 1]
            /\ hist' = [hist EXCEPT !.created = @ \cup {CaseAt(cases, ri).case_number},
                                    !.added = @ \cup {CaseAt(cases, ri).case_number},
                                    !.writes = @ + 1, !.newrows = @ + 1,
                                    !.order = Append(@, CaseAt(cases, ri).source_url)]
            /\ UNCHANGED dbFaults
  /\ ri' = ri + 1
  /\ pc' = "persist"
  /\ UNCHANGED <<coord, nsite, run, session, urls, bi, pending, results, cases,
                 found, total, logs, netFaults, xvars, cvars, evars>>

\* service.update_probate_case(case): the row is looked up again; a missing
\* row is a ValueError; otherwise the fields are set and committed.
EndpointUpdate ==
  /\ coord = "endpoint" /\ pc = "persist_write" /\ found
  /\ \E fail \in DbFails :
       IF fail \/ ~case_exists(store, CaseAt(cases, ri).case_number)
       THEN /\ summary' = Skipped(summary)
            /\ dbFaults' = dbFaults + (IF fail THEN 1 ELSE 0)
            /\ hist' = [hist EXCEPT !.persistErr = TRUE]
            /\ UNCHANGED <<store, clock>>
       ELSE /\ store' = update_probate_case(store, CaseAt(cases, ri))
            /\ clock' = clock + 1
            /\ summary' = [summary EXCEPT !.updated = @ + 1]
            /\ hist' = [hist EXCEPT
                          !.writes = @ + 1,
                          !.order = Append(@, CaseAt(cases, ri).source_url)]
            /\ UNCHANGED dbFaults
  /\ ri' = ri + 1
  /\ pc' = "persist"
  /\ UNCHANGED <<coord, nsite, run, session, urls, bi, pending, results, cases,
                 found, total, nextId, logs, netFaults, xvars, cvars, evars>>

\* The loop is over: the endpoint returns its summary.
EndpointReturn ==
  /\ coord = "endpoint" /\ pc = "persist" /\ ri > Len(cases)
  /\ pc' = "done"
  /\ UNCHANGED <<coord, nsite, run, session, urls, bi, pending, results, ri,
                 cases, found, total, summary, store, nextId, clock, logs,
                 netFaults, dbFaults, hist, xvars, cvars, evars>>

----------------------------------------------------------------------------
(* "details": scrape_all_case_details                                       *)

\* save_case_to_db: a new row with a fresh id; no look-up comes first.
save_case_to_db(st, rec, id, now) == st \cup {NewRow(rec, id, now)}

\* The CAPTCHA-block branch: the log entry is written inline and a failure
\* of the write is logged and dropped; return, finally close_session.
DetailsLogBlock ==
  /\ coord = "details" /\ pc = "log_block"
  /\ \E o \in LogOutcomes(FALSE) :
       /\ logs' = WriteLog(logs,
            LogEntry(run, "Montgomery Probate", 0, FALSE, "CAPTCHA block"), o)
       /\ dbFaults' = dbFaults + (IF o = "ok" THEN 0 ELSE 1)
       /\ hist' = [hist EXCEPT !.logFailed = @ \/ o # "ok"]
  /\ pc' = "done"
  /\ session' = "none"
  /\ UNCHANGED <<coord, nsite, run, urls, bi, pending, results, ri, cases,
                 found, total, summary, store, nextId, clock, netFaults, xvars, cvars, evars>>

\* The gather returned: the results are saved one after another.
DetailsJoin ==
  /\ coord = "details" /\ pc = "fetching" /\ pending = {}
  /\ ri' = bi
  /\ pc' = "saving"
  /\ UNCHANGED <<coord, nsite, run, session, urls, bi, pending, results, cases,
                 found, total, summary, store, nextId, clock, logs, netFaults,
                 dbFaults, hist, xvars, cvars, evars>>

\* for details in results: if details: await self.save_case_to_db(details);
\* total_saved += 1. An exception of save_case_to_db (a failed commit, or
\* the unique constraint) leaves both loops for the except branch.
DetailsSave ==
  /\ coord = "details" /\ pc = "saving" /\ ri <= LastOfBatch(bi, Len(urls))
  /\ IF ~IsDetails(results[ri])
     THEN /\ ri' = ri + 1
          /\ UNCHANGED <<pc, store, nextId, clock, total, dbFaults, hist>>
     ELSE \E fail \in DbFails :
            LET rec == RecordOf(results[ri])
            IN  IF fail \/ ~InsertAccepted(store, rec)
                THEN /\ pc' = "log_error"
                     /\ dbFaults' = dbFaults + (IF fail THEN 1 ELSE 0)
                     /\ hist' = [hist EXCEPT !.persistErr = TRUE,
                                             !.attempts = @ + 1]
                     /\ UNCHANGED <<ri, store, nextId, clock, total>>
                ELSE /\ store' = save_case_to_db(store, rec, nextId, clock)
                     /\ nextId' = nextId + 1
                     /\ clock' = clock + 1
                     /\ total' = total + 1
                     /\ ri' = ri + 1
                     /\ hist' = [hist EXCEPT !.writes = @ + 1, !.newrows = @ + 1,
                                             !.added = @ \cup {rec.case_number},
                                             !.attempts = @ + 1,
                                             !.order = Append(@, rec.source_url)]
                     /\ UNCHANGED <<pc, dbFaults>>
  /\ UNCHANGED <<coord, nsite, run, session, urls, bi, pending, results, cases,
                 found, summary, logs, netFaults, xvars, cvars, evars>>

\* The batch is saved: sleep, then the next batch or the final log entry.
DetailsNextBatch ==
  /\ coord = "details" /\ pc = "saving" /\ ri > LastOfBatch(bi, Len(urls))
  /\ bi' = bi + BatchSize
  /\ pc' = IF bi' > Len(urls) THEN "log_final" ELSE "batch"
  /\ results' = <<>>
  /\ UNCHANGED <<coord, nsite, run, session, urls, pending, ri, cases, found,
                 total, summary, store, nextId, clock, logs, netFaults,
                 dbFaults, hist, xvars, cvars, evars>>

\* The final success entry, written inline; a failure is logged and dropped.
DetailsLogFinal ==
  /\ coord = "details" /\ pc = "log_final"
  /\ \E o \in LogOutcomes(FALSE) :
       /\ logs' = WriteLog(logs,
            LogEntry(run, "Montgomery Probate", total, TRUE, ""), o)
       /\ dbFaults' = dbFaults + (IF o = "ok" THEN 0 ELSE 1)
       /\ hist' = [hist EXCEPT !.logFailed = @ \/ o # "ok"]
  /\ pc' = "done"
  /\ session' = "none"
  /\ UNCHANGED <<coord, nsite, run, urls, bi, pending, results, ri, cases,
                 found, total, summary, store, nextId, clock, netFaults, xvars, cvars, evars>>

\* The except branch: the error entry, written inline; a failure is logged
\* and dropped. finally: close_session.
DetailsLogError ==
  /\ coord = "details" /\ pc = "log_error"
  /\ \E o \in LogOutcomes(FALSE) :
       /\ logs' = WriteLog(logs,
            LogEntry(run, "Montgomery Probate", 0, FALSE, "error"), o)
       /\ dbFaults' = dbFaults + (IF o = "ok" THEN 0 ELSE 1)
       /\ hist' = [hist EXCEPT !.logFailed = @ \/ o # "ok"]
  /\ pc' = "done"
  /\ session' = "none"
  /\ UNCHANGED <<coord, nsite, run, urls, bi, pending, results, ri, cases,
                 found, total, summary, store, nextId, clock, netFaults, xvars, cvars, evars>>

----------------------------------------------------------------------------
(* "divorce": run_scraper of montgomery_divorce_scraper                     *)

\* What get_recaptcha_token (app/utils/recaptcha.py) hands to its caller:
\* a token, the empty string, or an exception of its own error handler.
TokenOutcomes == {"TOKEN", "", "RAISED"}

\* A token the caller tests with "if not captcha_token" and takes for one:
\* null for the empty string.
token_is_not_none(t) == t \in {"TOKEN", ""}

\* if not captcha_token: return
HasToken(t) == t = "TOKEN"

\* The search-results table of the site: one DRC row per listed case, the
\* row of case 3 CLOSED; F holds the rows whose detail POST raises.
DvSiteRows(n, F) ==
  [i \in 1..n |-> [drc |-> TRUE,
                   status |-> IF CaseNo(i) = 3 THEN "CLOSED" ELSE "OPEN",
                   onclick |-> CaseNo(i), fetched |-> i \notin F]]

\* The detail page of case 4 has no 'File Date:' cell: filing_date stays ''
\* and strptime(.., '%m/%d/%Y') raises ValueError.
DvFilingDateOk(case_id) == case_id # 4

\* The rows the scraper requests details for.
DvRequested(rows) ==
  {i \in DOMAIN rows :
     rows[i].drc /\ rows[i].status \in {"OPEN", "REOPENED"} /\ rows[i].onclick # 0}

DvNewRow(case_id, id, now) ==
  [case_id |-> case_id, id |-> id, created_at |-> now,
   case_status |-> <<"OPEN">>]

\* save_to_database: one row per element of data, each with a fresh id, all
\* added to one session and committed together; no look-up comes first.
RECURSIVE DvAddAll(_, _, _, _)
DvAddAll(st, data, id, now) ==
  IF data = <<>> THEN st
  ELSE DvAddAll(st \cup {DvNewRow(Head(data), id, now)}, Tail(data), id + 1, now)

\* The commit is rejected when a case_id is already in the table or comes
\* twice in data (montgomery_divorce_cases.case_id is unique).
DvCommitAccepted(st, data) ==
  /\ \A j \in DOMAIN data : \A r \in st : r.case_id # data[j]
  /\ NoDuplicates(data)

\* The least position of a set of positions (n + 1: the set is empty).
FirstOf(bad, n) ==
  IF bad = {} THEN n + 1 ELSE CHOOSE j \in bad : \A j2 \in bad : j <= j2

\* The position of the first case whose filing date does not parse
\* (Len + 1: none): the cases before it have been added to the session.
DvFirstBadDate(data) ==
  FirstOf({j \in DOMAIN data : ~DvFilingDateOk(data[j])}, Len(data))

\* The case a failed save_to_database failed on: the first one whose date
\* does not parse (the loop stops there); else the first one the unique
\* constraint rejects; else, the commit itself having failed, the last one.
DvFailingIndex(st, data) ==
  IF DvFirstBadDate(data) <= Len(data) THEN DvFirstBadDate(data)
  ELSE LET rejected == {j \in DOMAIN data :
                          \/ \E r \in st : r.case_id = data[j]
                          \/ \E i \in 1..(j - 1) : data[i] = data[j]}
       IN  IF rejected # {} THEN FirstOf(rejected, Len(data)) ELSE Len(data)

\* if not verify_scraping_log_table(): return
DvVerify ==
  /\ coord = "divorce" /\ pc = "dv_verify"
  /\ \E fail \in DbFails :
       /\ pc' = IF fail THEN "done" ELSE "dv_token"
       /\ dbFaults' = dbFaults + (IF fail THEN 1 ELSE 0)
  /\ UNCHANGED <<coord, nsite, run, session, urls, bi, pending, results, ri,
                 cases, found, total, summary, store, nextId, clock, logs,
                 netFaults, hist, xvars, cvars, evars>>

\* captcha_token = get_recaptcha_token(); if not captcha_token: return
DvToken ==
  /\ coord = "divorce" /\ pc = "dv_token"
  /\ \E t \in TokenOutcomes :
       /\ pc' = IF t # "RAISED" /\ HasToken(t) THEN "dv_scrape" ELSE "done"
       /\ hist' = [hist EXCEPT !.raised = (t = "RAISED"), !.tokens = @ + 1,
                               !.tokenFailed = (t # "TOKEN")]
  /\ UNCHANGED <<coord, nsite, run, session, urls, bi, pending, results, ri,
                 cases, found, total, summary, store, nextId, clock, logs,
                 netFaults, dbFaults, xvars, cvars, evars>>

\* case_details_list = scrape_case_ids(captcha_token): the search, then one
\* detail request per matching row; if not case_details_list: return
DvScrape ==
  /\ coord = "divorce" /\ pc = "dv_scrape"
  /\ \E resp \in {"ok", "error"} :
     \E F \in SUBSET (1..nsite) :
       LET rows == DvSiteRows(nsite, F)
       IN  /\ F \subseteq DvRequested(rows)
           /\ resp = "error" => F = {}
           /\ Cardinality(F) <= MaxFaults - netFaults - dbFaults
           /\ netFaults' = netFaults + Cardinality(F)
           /\ cases' = dv_scrape_case_ids(resp, rows)
           /\ hist' = [hist EXCEPT
                         !.seen = IF resp = "ok" THEN DvCaseIds(DvSiteRows(nsite, {}))
                                  ELSE <<>>,
                         !.failedFetch = F,
                         !.searches = @ + 1,
                         !.fetched =
                           IF resp = "ok" THEN Cardinality(DvRequested(rows)) ELSE 0]
           /\ pc' = IF cases' = <<>> THEN "done" ELSE "dv_save"
  /\ UNCHANGED <<coord, nsite, run, session, urls, bi, pending, results, ri,
                 found, total, summary, store, nextId, clock, logs, dbFaults,
                 xvars, cvars, evars>>

\* save_to_database(case_details_list), up to the commit of the cases.
DvSave ==
  /\ coord = "divorce" /\ pc = "dv_save"
  /\ \E fail \in DbFails :
       IF \/ fail
          \/ DvFirstBadDate(cases) <= Len(cases)
          \/ ~DvCommitAccepted(store, cases)
       THEN /\ pc' = "dv_log_err"
            /\ dbFaults' = dbFaults + (IF fail THEN 1 ELSE 0)
            /\ hist' = [hist EXCEPT
                          !.persistErr = TRUE,
                          !.added = {cases[j] :
                                       j \in 1..(DvFailingIndex(store, cases) - 1)}]
            /\ UNCHANGED <<store, nextId, clock, total>>
       ELSE /\ store' = DvAddAll(store, cases, nextId, clock)
            /\ nextId' = nextId + Len(cases)
            /\ clock' = clock + 1
            /\ total' = Len(cases)
            /\ hist' = [hist EXCEPT !.writes = @ + Len(cases),
                                    !.newrows = @ + Len(cases),
                                    !.added = Range(cases)]
            /\ pc' = "dv_log_ok"
            /\ UNCHANGED dbFaults
  /\ UNCHANGED <<coord, nsite, run, session, urls, bi, pending, results, ri,
                 cases, found, summary, logs, netFaults, xvars, cvars, evars>>

\* The success entry; an exception of the write is logged and dropped.
DvLogOk ==
  /\ coord = "divorce" /\ pc = "dv_log_ok"
  /\ \E o \in LogOutcomes(FALSE) :
       /\ logs' = WriteLog(logs,
            LogEntry(run, "Montgomery Divorce", total, TRUE, ""), o)
       /\ dbFaults' = dbFaults + (IF o = "ok" THEN 0 ELSE 1)
       /\ hist' = [hist EXCEPT !.logFailed = @ \/ o # "ok"]
  /\ pc' = "done"
  /\ UNCHANGED <<coord, nsite, run, session, urls, bi, pending, results, ri,
                 cases, found, total, summary, store, nextId, clock,
                 netFaults, xvars, cvars, evars>>

\* The except branch: rollback, the error entry (a failure of the write is
\* logged and dropped), then raise: the exception leaves run_scraper.
DvLogErr ==
  /\ coord = "divorce" /\ pc = "dv_log_err"
  /\ \E o \in LogOutcomes(FALSE) :
       /\ logs' = WriteLog(logs,
            LogEntry(run, "Montgomery Divorce", 0, FALSE, "error"), o)
       /\ dbFaults' = dbFaults + (IF o = "ok" THEN 0 ELSE 1)
       /\ hist' = [hist EXCEPT !.raised = TRUE, !.logFailed = @ \/ o # "ok"]
  /\ pc' = "done"
  /\ UNCHANGED <<coord, nsite, run, session, urls, bi, pending, results, ri,
                 cases, found, total, summary, store, nextId, clock,
                 netFaults, xvars, cvars, evars>>

----------------------------------------------------------------------------
(* "foreclosure": run_scraper of montgomery_foreclosure_scraper             *)

\* The search-results table of the site: one OPEN row per listed case.
FcSiteRows(n) == [i \in 1..n |-> [status |-> "OPEN", onclick |-> CaseNo(i)]]

\* The case-information page of a case: case 3 is CLOSED there, the page of
\* case 4 has no 'File Date:' cell.
FcSitePage(k) ==
  [kind |-> "fc_detail", resp |-> "ok",
   rows |-> <<<<FcLabel("Case Type:"), FcValue(MF)>>>>
            \o (IF k = 4 THEN <<>>
                ELSE <<<<FcLabel("File Date:"), FcValue(<<"01/02/2025">>)>>>>)
            \o <<<<FcLabel("Case Status"),
                   FcValue(<<IF k = 3 THEN "CLOSED" ELSE "OPEN", "01/02/2025">>)>>>>]

FcFailedPage == [kind |-> "fc_detail", resp |-> "error", rows |-> <<>>]

\* datetime.strptime(text, '%m/%d/%Y'): ValueError unless the text is a date.
StrptimeSlashOk(tokens) == tokens = <<"01/02/2025">>

\* for case_id in case_ids: scrape_case_details; the records that are there
\* and pass the validation are collected. F: the positions whose POST raises.
RECURSIVE FcCollect(_, _, _)
FcCollect(ids, F, i) ==
  IF i > Len(ids) THEN <<>>
  ELSE LET d == fc_scrape_case_details(ids[i],
                  IF i \in F THEN FcFailedPage ELSE FcSitePage(ids[i]))
       IN  (IF IsDetails(d) /\ FcValid(d) THEN <<d>> ELSE <<>>)
           \o FcCollect(ids, F, i + 1)

\* valid_cases of save_to_database: the same validation once more.
RECURSIVE FcValidCases(_)
FcValidCases(data) ==
  IF data = <<>> THEN <<>>
  ELSE (IF FcValid(Head(data)) THEN <<Head(data)>> ELSE <<>>)
       \o FcValidCases(Tail(data))

FcNewRow(d, id, now) ==
  [case_id |-> d.case_id, id |-> id, created_at |-> now,
   case_status |-> d.case_status, filing_type |-> d.filing_type]

\* One row per valid case, each with a fresh id, all added to one session.
RECURSIVE FcAddAll(_, _, _, _)
FcAddAll(st, data, id, now) ==
  IF data = <<>> THEN st
  ELSE FcAddAll(st \cup {FcNewRow(Head(data), id, now)}, Tail(data), id + 1, now)

\* The commit is rejected when a case_id is already in the table or comes
\* twice in the session (montgomery_foreclosure_cases.case_id is unique).
FcCommitAccepted(st, data) ==
  /\ \A j \in DOMAIN data : \A r \in st : r.case_id # data[j].case_id
  /\ \A i, j \in DOMAIN data : i # j => data[i].case_id # data[j].case_id

\* The position of the first case whose filing date does not parse
\* (Len + 1: none): the cases before it have been added to the session.
FcFirstBadDate(data) ==
  FirstOf({j \in DOMAIN data : ~StrptimeSlashOk(data[j].filing_date)}, Len(data))

\* The case a failed save_to_database failed on (as for the divorce cases).
FcFailingIndex(st, data) ==
  IF FcFirstBadDate(data) <= Len(data) THEN FcFirstBadDate(data)
  ELSE LET rejected == {j \in DOMAIN data :
                          \/ \E r \in st : r.case_id = data[j].case_id
                          \/ \E i \in 1..(j - 1) : data[i].case_id = data[j].case_id}
       IN  IF rejected # {} THEN FirstOf(rejected, Len(data)) ELSE Len(data)

\* captcha_token = get_recaptcha_token(); if not captcha_token: return
FcToken ==
  /\ coord = "foreclosure" /\ pc = "fc_token"
  /\ \E t \in TokenOutcomes :
       /\ pc' = IF t # "RAISED" /\ HasToken(t) THEN "fc_scrape" ELSE "done"
       /\ hist' = [hist EXCEPT !.raised = (t = "RAISED"), !.tokens = @ + 1,
                               !.tokenFailed = (t # "TOKEN")]
  /\ UNCHANGED <<coord, nsite, run, session, urls, bi, pending, results, ri,
                 cases, found, total, summary, store, nextId, clock, logs,
                 netFaults, dbFaults, xvars, cvars, evars>>

\* case_ids = scrape_case_ids(captcha_token), then the detail loop.
FcScrape ==
  /\ coord = "foreclosure" /\ pc = "fc_scrape"
  /\ \E resp \in {"ok", "error"} :
     \E F \in SUBSET (1..nsite) :
       LET ids == fc_scrape_case_ids(resp, FcSiteRows(nsite))
       IN  /\ F \subseteq DOMAIN ids
           /\ Cardinality(F) <= MaxFaults - netFaults - dbFaults
           /\ netFaults' = netFaults + Cardinality(F)
           /\ urls' = ids
           /\ cases' = FcCollect(ids, F, 1)
           /\ hist' = [hist EXCEPT
                         !.seen = ids, !.failedFetch = F, !.searches = @ + 1,
                         !.fetched = Len(ids)]
  /\ pc' = "fc_save"
  /\ UNCHANGED <<coord, nsite, run, session, bi, pending, results, ri, found,
                 total, summary, store, nextId, clock, logs, dbFaults,
                 xvars, cvars, evars>>

\* save_to_database(case_details_list): nothing to do without a valid case;
\* otherwise every case is added and all are committed together; on an
\* exception rollback and raise, which run_scraper re-raises.
FcSave ==
  /\ coord = "foreclosure" /\ pc = "fc_save"
  /\ LET valid == FcValidCases(cases)
     IN  IF valid = <<>>
         THEN UNCHANGED <<store, nextId, clock, total, dbFaults, hist>>
         ELSE \E fail \in DbFails :
                IF \/ fail
                   \/ FcFirstBadDate(valid) <= Len(valid)
                   \/ ~FcCommitAccepted(store, valid)
                THEN /\ dbFaults' = dbFaults + (IF fail THEN 1 ELSE 0)
                     /\ hist' = [hist EXCEPT
                                   !.persistErr = TRUE, !.raised = TRUE,
                                   !.added = {valid[j].case_id :
                                     j \in 1..(FcFailingIndex(store, valid) - 1)}]
                     /\ UNCHANGED <<store, nextId, clock, total>>
                ELSE /\ store' = FcAddAll(store, valid, nextId, clock)
                     /\ nextId' = nextId + Len(valid)
                     /\ clock' = clock + 1
                     /\ total' = Len(valid)
                     /\ hist' = [hist EXCEPT !.writes = @ + Len(valid),
                                             !.newrows = @ + Len(valid),
                                             !.added = {valid[j].case_id :
                                                          j \in DOMAIN valid}]
                     /\ UNCHANGED dbFaults
  /\ pc' = "done"
  /\ UNCHANGED <<coord, nsite, run, session, urls, bi, pending, results, ri,
                 cases, found, summary, logs, netFaults, xvars, cvars, evars>>

----------------------------------------------------------------------------

\* Any task of the gather may be the next to complete.
FetchAny == \E i \in pending : FetchDone(i)

Next ==
  \/ StartRun
  \/ RunGetCaseList
  \/ StartBatch
  \/ FetchAny
  \/ AllCasesLogBlock
  \/ AllCasesJoin
  \/ AllCasesLogFinal
  \/ AllCasesLogError
  \/ EndpointCaseExists
  \/ EndpointCreate
  \/ EndpointUpdate
  \/ EndpointReturn
  \/ DetailsLogBlock
  \/ DetailsJoin
  \/ DetailsSave
  \/ DetailsNextBatch
  \/ DetailsLogFinal
  \/ DetailsLogError
  \/ DvVerify
  \/ DvToken
  \/ DvScrape
  \/ DvSave
  \/ DvLogOk
  \/ DvLogErr
  \/ FcToken
  \/ FcScrape
  \/ FcSave

Spec == InitPipeline /\ [][Next]_vars

----------------------------------------------------------------------------
(* Claims about the runs                                                    *)

Terminated == pc = "done"

RunLogs == LogsOfRun(logs, run)

\* The natural keys of the rows in the case table.
NaturalKey(r) ==
  IF coord \in {"divorce", "foreclosure"} THEN r.case_id ELSE r.case_number

OneRowPerKey ==
  \A r1, r2 \in store : NaturalKey(r1) = NaturalKey(r2) => r1 = r2

\* C1: when a run of a coordinator (scrape_all_cases under its endpoint,
\* scrape_all_case_details, the divorce run_scraper) has terminated, the
\* scraping log holds exactly one row of that run, however the run ended.
C1_ExactlyOneLogPerRun ==
  (Terminated /\ coord \in {"endpoint", "details", "divorce"})
    => Cardinality(RunLogs) = 1

IsCaptchaBlockEntry(e) ==
  e.total_records = 0 /\ e.success_status = FALSE /\ e.error_message = "CAPTCHA block"

ProbateRunWithoutIds ==
  coord \in {"endpoint", "details"} /\ Terminated /\ urls = <<>>

C3_FetchFailureIsolated ==
  (coord = "details" /\ Terminated /\ Len(urls) >= BatchSize
     /\ hist.failedFetch # {}) =>
    /\ \A i \in DOMAIN urls :
         (i \notin hist.failedFetch
            /\ IsDetails(get_case_details(urls[i], SitePage(urls[i].id))))
           => case_exists(store, CaseNo(urls[i].id))
    /\ hist.fetched = Len(urls)
    /\ Cardinality(RunLogs) = 1
    /\ ~hist.raised

\* C4: when the second of two runs over the same site content has
\* terminated, and no fetch and no database operation failed in either run,
\* the second run has created no case row, its updated count is not
\* negative, no case write of it failed, and no natural key has two rows.
C4_SecondRunIdempotent ==
  (Terminated /\ run = 2 /\ netFaults = 0 /\ dbFaults = 0
     /\ hist.seen = hist.prevSeen /\ hist.seen # <<>>) =>
    /\ hist.newrows = 0
    /\ summary.updated >= 0
    /\ ~hist.persistErr
    /\ OneRowPerKey

\* C5: every case number create_probate_case has succeeded for is found by
\* case_exists in every later state.
C5_CreatedCaseStaysFound ==
  \A k \in hist.created : case_exists(store, k)

C5_Witness ==
  /\ coord = "endpoint" /\ run = 2 /\ Terminated
  /\ hist.created # {} /\ summary.updated > 0

\* C6: a step in which update_probate_case succeeds leaves the number of
\* rows as it was, leaves id and created_at of every row as they were, and
\* leaves the row of the case number with the data fields of the record
\* passed in.
C6_UpdateKeepsIdentity ==
  [][(coord = "endpoint" /\ pc = "persist_write" /\ found
        /\ summary'.updated = summary.updated + 1) =>
       /\ Cardinality(store') = Cardinality(store)
       /\ \A r \in store : \E r2 \in store' :
            /\ r2.case_number = r.case_number
            /\ r2.id = r.id
            /\ r2.created_at = r.created_at
       /\ \A r2 \in RowsOf(store', cases[ri].case_number) :
            /\ r2.source_url = cases[ri].source_url
            /\ r2.case_status = cases[ri].case_status
            /\ r2.filing_date = cases[ri].filing_date
            /\ r2.decedent_name = cases[ri].decedent_name]_vars

C6_Witness ==
  /\ coord = "endpoint" /\ summary.updated > 0
  /\ \E r \in store : r.source_url # r.case_number

\* C12: once the token request of a divorce or foreclosure run has failed,
\* the run is over: it has requested one token only, submitted no search,
\* fetched no detail page and written no case row.
C12_TokenFailureStopsRun ==
  (coord \in {"divorce", "foreclosure"} /\ hist.tokenFailed) =>
    /\ Terminated
    /\ hist.tokens = 1
    /\ hist.searches = 0
    /\ hist.fetched = 0
    /\ hist.writes = 0

C12_Witness ==
  /\ coord = "foreclosure" /\ nsite > 0 /\ run = 2
  /\ hist.tokenFailed /\ ~hist.raised /\ Terminated

\* C13: every case row a run has written stays committed when a later case
\* write of the run fails: the natural key of every row the run wrote is in
\* the table.
C13_EarlierWritesStayCommitted ==
  \A k \in hist.added : \E r \in store : NaturalKey(r) = k

\* The records a probate run has to persist: one for every identifier whose
\* fetch did not raise and whose page gives a record.
RecordsToPersist ==
  {i \in DOMAIN urls :
     /\ i \notin hist.failedFetch
     /\ IsDetails(get_case_details(urls[i], SitePage(urls[i].id)))}

\* C14: when a case write failed in a probate run (under the endpoint, or in
\* scrape_all_case_details), the run has, at its end, still begun to persist
\* every record it had, no exception has left it, and under the endpoint
\* the failed case is counted as skipped.
C14_PersistenceFailureContinues ==
  (coord \in {"endpoint", "details"} /\ Terminated /\ hist.persistErr) =>
    /\ hist.attempts = Cardinality(RecordsToPersist)
    /\ ~hist.raised
    /\ coord = "endpoint" => summary.skipped >= 1

\* C15: every row of the case table has a natural key that is not empty and
\* a status of the permitted set.
C15_PersistedRowsPermitted ==
  \A r \in store :
    /\ NaturalKey(r) # 0
    /\ \E st \in PermittedStatus : r.case_status = <<st>>

\* C19: every case row created in a run was preceded, in that run, by an
\* existence check for the same natural key that answered false: the keys
\* inserted in the run are among the keys found absent in the run.
C19_CreateFollowsAbsentCheck ==
  hist.added \subseteq hist.absent

\* C20: the audit log entry of a run is written after the last case create
\* or update of the run: no step changes the case table once the log holds
\* an entry of the current run.
C20_NoCaseWriteAfterLog ==
  [][store' # store => RunLogs = {}]_vars

\* C21: during a probate run at most 5 detail fetches are in flight, and
\* the fetches in flight all belong to the current batch, the slice of 5 of
\* the identifier list that starts at bi: no fetch of a later batch has
\* started and every fetch of an earlier batch has completed.
C21_BatchBoundsFetches ==
  coord \in {"endpoint", "details"} =>
    /\ Cardinality(pending) <= 5
    /\ pending \subseteq {j \in DOMAIN urls : bi <= j /\ j < bi + 5}
    /\ \A j \in DOMAIN urls : j < bi => j \notin pending

C21_Witness ==
  /\ coord \in {"endpoint", "details"} /\ pc = "fetching"
  /\ bi = 6 /\ pending # {} /\ hist.fetched = 5

\* The batch of the listed page at position i of the identifier list.
BatchNo(i) == (i - 1) \div BatchSize

\* C22: whatever the order in which the concurrent fetches complete, case
\* writes follow batch order: a page of an earlier batch is never written
\* after a page of a later batch.
C22_WritesFollowBatchOrder ==
  coord \in {"endpoint", "details"} =>
    \A p, q \in DOMAIN hist.order :
      p < q => BatchNo(hist.order[p]) <= BatchNo(hist.order[q])

C22_Witness ==
  /\ coord = "endpoint"
  /\ \E p, q \in DOMAIN hist.order :
       p < q /\ BatchNo(hist.order[p]) < BatchNo(hist.order[q])

\* C24: in the summary the probate scrape endpoint returns, every scraped
\* case is counted in exactly one of new, updated and skipped: while the
\* loop runs the three counts add up to the cases handled so far, and in the
\* summary returned they add up to total_cases_scraped, len(cases).
C24_SummaryAddsUp ==
  /\ (coord = "endpoint" /\ pc = "persist") =>
       summary.new + summary.updated + summary.skipped = ri - 1
  /\ (coord = "endpoint" /\ Terminated /\ ~hist.raised) =>
       summary.new + summary.updated + summary.skipped = Len(cases)

C24_Witness ==
  /\ coord = "endpoint" /\ Terminated /\ ~hist.raised
  /\ summary.new >= 1 /\ summary.updated >= 1 /\ summary.skipped >= 1

\* C25: whenever scrape_all_cases has returned or raised (the endpoint is
\* persisting, or the run is over), the HTTP session it opened is closed.
C25_SessionClosedOnExit ==
  (coord = "endpoint" /\ pc \in {"persist", "persist_write", "done"}) =>
    session = "none"

\* C26: the total_records of the audit entry scrape_all_case_details writes
\* equals the number of case rows the run committed, on every path.
C26_LogCountsCommittedRows ==
  coord = "details" =>
    \A i \in RunLogs : logs[i].total_records = hist.newrows

----------------------------------------------------------------------------
(* SpecRace: two requests to the probate scrape endpoint at once            *)

\* Each request has its own database session over the one case table; the
\* steps of the two persistence loops interleave in every order.
Requests == {1, 2}

\* A scraped case, as scrape_all_cases hands it to the loop.
RaceRecord(k) ==
  [case_number |-> k, source_url |-> k, case_status |-> <<"OPEN">>,
   filing_date |-> "2025-01-02", decedent_name |-> <<"SMITH">>]

\* What one request scraped: a list of distinct cases.
RaceCaseLists ==
  {[i \in DOMAIN s |-> RaceRecord(s[i])] :
     s \in {t \in SeqsUpTo(1..RaceCases, RaceCases) : NoDuplicates(t)}}

\* lost: the creates of the request the unique constraint rejected.
InitRace ==
  /\ \E c1, c2 \in RaceCaseLists :
       race = [pc |-> "running", store |-> {}, nextId |-> 1, clock |-> 1,
               faults |-> 0,
               proc |-> [p \in Requests |->
                           [pc |-> "persist", ri |-> 1, found |-> FALSE,
                            cases |-> IF p = 1 THEN c1 ELSE c2, lost |-> 0,
                            summary |-> [new |-> 0, updated |-> 0, skipped |-> 0]]]]
  /\ ServiceIdle /\ DivorceServiceIdle
  /\ ExtractIdle /\ CaptchaIdle /\ PipelineIdle

RaceDbFails == {FALSE} \cup (IF race.faults < MaxFaults THEN {TRUE} ELSE {})

\* if not service.case_exists(case.case_number)
RaceCaseExists(p) ==
  LET me == race.proc[p]
  IN  /\ me.pc = "persist" /\ me.ri <= Len(me.cases)
      /\ \E fail \in RaceDbFails :
           race' = IF fail
                   THEN [race EXCEPT !.faults = @ + 1,
                                     !.proc[p].summary = Skipped(@),
                                     !.proc[p].ri = @ + 1]
                   ELSE [race EXCEPT
                           !.proc[p].found =
                              case_exists(race.store, CaseAt(me.cases, me.ri).case_number),
                           !.proc[p].pc = "persist_write"]
      /\ UNCHANGED <<xvars, cvars, pvars, svc, dsv>>

\* service.create_probate_case(case)
RaceCreate(p) ==
  LET me == race.proc[p]
      rec == CaseAt(me.cases, me.ri)
  IN  /\ me.pc = "persist_write" /\ ~me.found
      /\ \E fail \in RaceDbFails :
           race' = IF fail \/ ~InsertAccepted(race.store, rec)
                   THEN [race EXCEPT
                           !.faults = @ + (IF fail THEN 1 ELSE 0),
                           !.proc[p].lost = @ + (IF fail THEN 0 ELSE 1),
                           !.proc[p].summary = Skipped(@),
                           !.proc[p].ri = @ + 1,
                           !.proc[p].pc = "persist"]
                   ELSE [race EXCEPT
                           !.store = create_probate_case(@, rec, race.nextId, race.clock),
                           !.nextId = @ + 1,
                           !.clock = @ + 1,
                           !.proc[p].summary = [@ EXCEPT !.new = @ + 1],
                           !.proc[p].ri = @ + 1,
                           !.proc[p].pc = "persist"]
      /\ UNCHANGED <<xvars, cvars, pvars, svc, dsv>>

\* service.update_probate_case(case)
RaceUpdate(p) ==
  LET me == race.proc[p]
      rec == CaseAt(me.cases, me.ri)
  IN  /\ me.pc = "persist_write" /\ me.found
      /\ \E fail \in RaceDbFails :
           race' = IF fail \/ ~case_exists(race.store, rec.case_number)
                   THEN [race EXCEPT
                           !.faults = @ + (IF fail THEN 1 ELSE 0),
                           !.proc[p].summary = Skipped(@),
                           !.proc[p].ri = @ + 1,
                           !.proc[p].pc = "persist"]
                   ELSE [race EXCEPT
                           !.store = update_probate_case(@, rec),
                           !.clock = @ + 1,
                           !.proc[p].summary = [@ EXCEPT !.updated = @ + 1],
                           !.proc[p].ri = @ + 1,
                           !.proc[p].pc = "persist"]
      /\ UNCHANGED <<xvars, cvars, pvars, svc, dsv>>

\* The loop of the request is over: it returns its summary.
RaceReturn(p) ==
  LET me == race.proc[p]
  IN  /\ me.pc = "persist" /\ me.ri > Len(me.cases)
      /\ race' = [race EXCEPT !.proc[p].pc = "done"]
      /\ UNCHANGED <<xvars, cvars, pvars, svc, dsv>>

RaceCheck == \E p \in Requests : RaceCaseExists(p)

RaceInsert == \E p \in Requests : RaceCreate(p)

RaceModify == \E p \in Requests : RaceUpdate(p)

RaceFinish == \E p \in Requests : RaceReturn(p)

NextRace ==
  \/ RaceCheck
  \/ RaceInsert
  \/ RaceModify
  \/ RaceFinish

SpecRace == InitRace /\ [][NextRace]_vars

\* C27: for every interleaving of two probate scrape requests over
\* overlapping cases the case table never holds two rows with one
\* case_number, and the request whose create the constraint rejects counts
\* the case as skipped and goes on: its loop ends with every case counted.
C27_RaceLoserSkips ==
  /\ \A r1, r2 \in race.store : r1.case_number = r2.case_number => r1 = r2
  /\ \A p \in Requests :
       LET me == race.proc[p]
       IN  /\ me.summary.skipped >= me.lost
           /\ me.pc = "persist" =>
                me.summary.new + me.summary.updated + me.summary.skipped = me.ri - 1
           /\ me.pc = "done" =>
                me.summary.new + me.summary.updated + me.summary.skipped
                  = Len(me.cases)

C27_Witness ==
  \E p \in Requests :
    /\ race.proc[p].lost >= 1 /\ race.proc[p].pc = "done"
    /\ race.proc[p].summary.new >= 1
    /\ race.faults = 0

----------------------------------------------------------------------------
(* SpecService: MontgomeryProbateCaseService called directly                *)

\* The records a caller passes: a case number and a status.
ServiceRecords ==
  {[RaceRecord(k) EXCEPT !.case_status = <<st>>] :
     k \in 1..RaceCases, st \in {"OPEN", "CLOSED"}}

\* op, rec, before, raised: the last call, its argument, the case table
\* before it, and whether it raised.
InitService ==
  /\ svc = [pc |-> "ready", store |-> {}, nextId |-> 1, clock |-> 1, calls |-> 0,
            op |-> "none", rec |-> RaceRecord(1), before |-> {}, raised |-> FALSE]
  /\ RaceIdle /\ DivorceServiceIdle
  /\ ExtractIdle /\ CaptchaIdle /\ PipelineIdle

\* service.create_probate_case(rec): the unique constraint rejects a second
\* row for the case number; rollback and raise.
ServiceCreate ==
  /\ svc.calls < MaxCalls
  /\ \E rec \in ServiceRecords :
       svc' = IF InsertAccepted(svc.store, rec)
              THEN [svc EXCEPT
                      !.store = create_probate_case(@, rec, svc.nextId, svc.clock),
                      !.nextId = @ + 1, !.clock = @ + 1, !.calls = @ + 1,
                      !.op = "create", !.rec = rec, !.before = svc.store,
                      !.raised = FALSE]
              ELSE [svc EXCEPT
                      !.calls = @ + 1, !.op = "create", !.rec = rec,
                      !.before = svc.store, !.raised = TRUE]
  /\ UNCHANGED <<xvars, cvars, pvars, race, dsv>>

\* service.update_probate_case(rec)
ServiceUpdate ==
  /\ svc.calls < MaxCalls
  /\ \E rec \in ServiceRecords :
       LET out == UpdateCall(svc.store, rec)
       IN  svc' = [svc EXCEPT
                     !.store = out.store, !.clock = @ + 1, !.calls = @ + 1,
                     !.op = "update", !.rec = rec, !.before = svc.store,
                     !.raised = out.raised]
  /\ UNCHANGED <<xvars, cvars, pvars, race, dsv>>

NextService ==
  \/ ServiceCreate
  \/ ServiceUpdate

SpecService == InitService /\ [][NextService]_vars

\* C28: update_probate_case called with a case number that is not in the
\* case table raises and leaves the table as it was: no row is created and
\* no row is modified.
C28_UpdateOfMissingCaseRaises ==
  (svc.op = "update" /\ ~case_exists(svc.before, svc.rec.case_number)) =>
    svc.raised /\ svc.store = svc.before

C28_Witness ==
  /\ svc.op = "update" /\ ~case_exists(svc.before, svc.rec.case_number)
  /\ svc.before # {} /\ svc.raised

----------------------------------------------------------------------------
(* SpecDivorceService: DivorceScraperService.scrape_new_cases               *)

\* A <tr> of tblSearchResults as utils/divorce_scraper.scrape_case_ids reads
\* it: whether the case type cell is DIVORCE WITH CHILDREN (DRC), and the
\* case of the onclick attribute (0: case_id or case number not matched).
DsRows == [drc : BOOLEAN, id : 0..NumIds]

\* requests: how often the detail page of each case was requested; ids:
\* what scrape_case_ids returns; details: case_details_list of the service;
\* store: the case ids already in divorce_cases.
\* The search results: the site lists a case in one row only.
DsSearchResults ==
  {rows \in SeqsUpTo(DsRows, MaxListed) :
     \A a, b \in DOMAIN rows :
       (a # b /\ rows[a].id # 0) => rows[a].id # rows[b].id}

InitDivorceService ==
  /\ \E rows \in DsSearchResults, st \in SUBSET Ids :
       dsv = [pc |-> "token", rows |-> rows, j |-> 1, ids |-> <<>>, i |-> 1,
              details |-> <<>>, requests |-> [k \in Ids |-> 0], store |-> st,
              faults |-> 0, raised |-> FALSE]
  /\ RaceIdle /\ ServiceIdle
  /\ ExtractIdle /\ CaptchaIdle /\ PipelineIdle

DsFails == {FALSE} \cup (IF dsv.faults < MaxFaults THEN {TRUE} ELSE {})

\* captcha_token = get_recaptcha_token(); if not captcha_token: return []
DsToken ==
  /\ dsv.pc = "token"
  /\ \E t \in TokenOutcomes :
       dsv' = [dsv EXCEPT !.pc = IF t # "RAISED" /\ HasToken(t) THEN "search" ELSE "done",
                          !.raised = (t = "RAISED")]
  /\ UNCHANGED <<xvars, cvars, pvars, race, svc>>

\* scrape_case_ids: get_search_results; without HTML or without
\* tblSearchResults the list is empty.
DsSearch ==
  /\ dsv.pc = "search"
  /\ \E resp \in {"ok", "error", "notable"} :
       dsv' = [dsv EXCEPT !.pc = IF resp = "ok" THEN "scan" ELSE "details"]
  /\ UNCHANGED <<xvars, cvars, pvars, race, svc>>

\* scrape_case_details(case_data): one POST for the detail page of the case;
\* None when it raises.
DsRequest(d, k, fail) ==
  [d EXCEPT !.requests[k] = @ + 1, !.faults = @ + (IF fail THEN 1 ELSE 0)]

\* One turn of the row loop of scrape_case_ids: a DRC row whose onclick
\* matches is scraped directly, and its details are appended.
DsScan ==
  /\ dsv.pc = "scan" /\ dsv.j <= Len(dsv.rows)
  /\ LET row == dsv.rows[dsv.j]
     IN  IF row.drc /\ row.id # 0
         THEN \E fail \in DsFails :
                dsv' = [DsRequest(dsv, row.id, fail) EXCEPT
                          !.j = @ + 1,
                          !.ids = IF fail THEN @ ELSE Append(@, row.id)]
         ELSE dsv' = [dsv EXCEPT !.j = @ + 1]
  /\ UNCHANGED <<xvars, cvars, pvars, race, svc>>

\* return case_details_list
DsScanReturn ==
  /\ dsv.pc = "scan" /\ dsv.j > Len(dsv.rows)
  /\ dsv' = [dsv EXCEPT !.pc = "details"]
  /\ UNCHANGED <<xvars, cvars, pvars, race, svc>>

\* for case_id in case_ids: case_details = scrape_case_details(case_id)
DsDetail ==
  /\ dsv.pc = "details" /\ dsv.i <= Len(dsv.ids)
  /\ \E fail \in DsFails :
       dsv' = [DsRequest(dsv, dsv.ids[dsv.i], fail) EXCEPT
                 !.i = @ + 1,
                 !.details = IF fail THEN @ ELSE Append(@, dsv.ids[dsv.i])]
  /\ UNCHANGED <<xvars, cvars, pvars, race, svc>>

\* save_to_database(case_details_list): DivorceCase(**case) for a case that
\* is not stored yet; the dictionary holds keys the model has no column for
\* (case_number, status, plaintiff, defendant), so the constructor raises,
\* save_to_database rolls back and raises, and the service raises. With
\* nothing new to store it commits and the service returns the stored rows.
DsSave ==
  /\ dsv.pc = "details" /\ dsv.i > Len(dsv.ids)
  /\ dsv' = [dsv EXCEPT !.pc = "done",
                        !.raised = \E n \in DOMAIN dsv.details :
                                      dsv.details[n] \notin dsv.store]
  /\ UNCHANGED <<xvars, cvars, pvars, race, svc>>

NextDivorceService ==
  \/ DsToken
  \/ DsSearch
  \/ DsScan
  \/ DsScanReturn
  \/ DsDetail
  \/ DsSave

SpecDivorceService == InitDivorceService /\ [][NextDivorceService]_vars

\* C30: in one run of DivorceScraperService.scrape_new_cases the detail page
\* of each discovered case is requested at most once.
C30_DetailRequestedOnce ==
  \A k \in Ids : dsv.requests[k] <= 1

============================================================================
